---- MODULE Spec2Model ----
(***************************************************************************)
(* Secret Santa room server (server.js) and its browser client            *)
(* (public/shared-utils.js).                                               *)
(*                                                                         *)
(* The server is a single Node.js process: a handler runs without          *)
(* interruption from one `await` to the next, and other handlers run in    *)
(* between.  Every request is therefore a little process whose program     *)
(* counter names the await it is suspended at, and every action below is   *)
(* one such uninterrupted segment of a handler.                            *)
(*                                                                         *)
(* Strings that the code concatenates, trims or filters are sequences of   *)
(* one-character strings; every other string is a TLA+ string.             *)
(***************************************************************************)
EXTENDS Integers, Sequences, FiniteSets, TLC

(***************************************************************************)
(* Bounds of the model.                                                    *)
(***************************************************************************)
MaxReqs == 3        \* requests in one behaviour (one more for the client flows)
MaxInFlight == 2    \* requests suspended at an await at the same time
MaxRooms == 1       \* rooms created in one behaviour
MaxRestarts == 1    \* process restarts in one behaviour
MaxParticipants == 3   \* length of the lists given to the assignment generator
MaxOtherCalls == 2  \* calls of isRateLimited by the second client

(***************************************************************************)
(* Program constants.                                                      *)
(***************************************************************************)
UsernameMaxLength == 50
RoomNameMaxLength == 100
UsernameMinLength == 2
PasswordMinLength == 4
RATE_LIMIT_WINDOW == 60000
MAX_REQUESTS_PER_WINDOW == 10
maxAttempts == 100

(***************************************************************************)
(* Values.                                                                 *)
(***************************************************************************)
Null == [kind |-> "null"]
Undefined == [kind |-> "undefined"]
NoRoom == [kind |-> "noroom"]
NoResp == [kind |-> "noresp"]
NoLoc == [kind |-> "noloc"]

\* uuidv4(): the n-th room created gets the n-th identifier.
RoomIdSeq == << <<"r1">>, <<"r2">>, <<"r3">> >>
RoomIds == {RoomIdSeq[n] : n \in 1..Len(RoomIdSeq)}

Whitespace == {" "}
Stripped == {"<", ">", "\"", "'", "&"}

(***************************************************************************)
(* Sequence helpers.                                                       *)
(***************************************************************************)
RECURSIVE SelectSeqIdx(_, _, _)
\* indices k >= from of s, in order, with s[k].username = u
SelectSeqIdx(s, u, from) ==
    IF from > Len(s) THEN << >>
    ELSE IF s[from].username = u
         THEN <<from>> \o SelectSeqIdx(s, u, from + 1)
         ELSE SelectSeqIdx(s, u, from + 1)

\* Array.prototype.find(p => p.username === u): index of the first match, 0 if none
FindParticipant(participants, u) ==
    LET idx == SelectSeqIdx(participants, u, 1)
    IN  IF idx = << >> THEN 0 ELSE idx[1]

Range(s) == {s[k] : k \in DOMAIN s}

(***************************************************************************)
(* sanitizeString, validateUsername, validatePassword, validateRoomName    *)
(***************************************************************************)
RECURSIVE TrimLeft(_)
TrimLeft(s) ==
    IF s # << >> /\ Head(s) \in Whitespace THEN TrimLeft(Tail(s)) ELSE s

RECURSIVE TrimRight(_)
TrimRight(s) ==
    IF s # << >> /\ s[Len(s)] \in Whitespace
    THEN TrimRight(SubSeq(s, 1, Len(s) - 1))
    ELSE s

Trim(s) == TrimRight(TrimLeft(s))

Slice(s, maxLength) == IF Len(s) > maxLength THEN SubSeq(s, 1, maxLength) ELSE s

NotStripped(c) == c \notin Stripped

sanitizeString(str, maxLength) ==
    SelectSeq(Slice(Trim(str), maxLength), NotStripped)

Invalid == <<"!invalid">>

\* the sanitized name, or Invalid where the code throws
validateUsername(username) ==
    LET sanitized == sanitizeString(username, UsernameMaxLength)
    IN  IF sanitized = << >> \/ Len(sanitized) < UsernameMinLength
        THEN Invalid ELSE sanitized

\* TRUE where the code returns, FALSE where it throws
validatePassword(password) == Len(password) >= PasswordMinLength

validateRoomName(name) ==
    LET sanitized == sanitizeString(name, RoomNameMaxLength)
    IN  IF sanitized = << >> \/ Len(sanitized) < 1 THEN Invalid ELSE sanitized

(***************************************************************************)
(* bcrypt: a hash verifies exactly the string it was made from.            *)
(***************************************************************************)
hashPassword(password) == [kind |-> "bcrypt", of |-> password]

verifyPassword(password, hash) == hash.kind = "bcrypt" /\ hash.of = password

\* an async function called without await evaluates to a promise
Promise(v) == [kind |-> "promise", value |-> v]

(***************************************************************************)
(* Keys.  The keypair is a function of the PBKDF2 input (seed, salt); a    *)
(* ciphertext opens under the private key of the public key that made it.  *)
(***************************************************************************)
deriveKeyPairFromPassword(username, password, roomId, keySalt) ==
    LET seed == username \o password \o roomId
    IN  [publicKey  |-> [kind |-> "public",  seed |-> seed, salt |-> keySalt],
         privateKey |-> [kind |-> "private", seed |-> seed, salt |-> keySalt]]

exportPublicKey(publicKey) ==
    [kind |-> "pem", seed |-> publicKey.seed, salt |-> publicKey.salt]

\* forge.pki.publicKeyFromPem throws on anything that is not a PEM key
IsPem(publicKeyPem) == publicKeyPem.kind = "pem"

\* publicKey.encrypt(..., 'RSA-OAEP', ...) followed by encode64
Encrypt(plaintext, publicKeyPem) ==
    [kind |-> "ciphertext", pt |-> plaintext,
     seed |-> publicKeyPem.seed, salt |-> publicKeyPem.salt]

DecryptFailure == <<"!null">>

decryptWithPrivateKey(encryptedBase64, privateKey) ==
    IF /\ encryptedBase64.kind = "ciphertext"
       /\ encryptedBase64.seed = privateKey.seed
       /\ encryptedBase64.salt = privateKey.salt
    THEN encryptedBase64.pt
    ELSE DecryptFailure

(***************************************************************************)
(* State.                                                                  *)
(***************************************************************************)
VARIABLES
    rooms,          \* const rooms = new Map(): room id -> reference to a room object, 0 if absent
    heap,           \* the room objects: reference -> room
    reqs,           \* the requests of the behaviour, in the order they arrive
    saveInProgress, \* let saveInProgress
    saver,          \* the running saveData(): the await it is at, its locals
    file,           \* content of data/rooms.json
    backups,        \* contents of the files under data/backups
    loader,         \* the await loadData() is at
    rateLimitMap,   \* const rateLimitMap = new Map(): client id -> admission times
    now,            \* Date.now()
    restarts        \* process starts after the first

vars == <<rooms, heap, reqs, saveInProgress, saver, file, backups, loader,
          rateLimitMap, now, restarts>>

Clients == {"ip1"}

Missing == [kind |-> "missing"]
Partial == [kind |-> "partial"]
Json(roomsObj) == [kind |-> "json", rooms |-> roomsObj]

NoRooms == [r \in RoomIds |-> NoRoom]

\* rooms.get(roomId)
Get(roomId) == IF rooms[roomId] = 0 THEN NoRoom ELSE heap[rooms[roomId]]

\* Object.fromEntries(rooms), which JSON.stringify writes out
Snapshot == [r \in RoomIds |-> Get(r)]

Idle == [op |-> "none", pc |-> "idle"]
SaverIdle == [pc |-> "idle"]

ReqIds == 1..(MaxReqs + 1)

\* the requests of a behaviour that is not made of client flows
Direct == 1..MaxReqs

InFlight == {i \in ReqIds : reqs[i].pc \notin {"idle", "done"}}

\* request i arrives next
Arrives(i) ==
    /\ reqs[i].pc = "idle"
    /\ IF i = 1 THEN TRUE ELSE reqs[i - 1].pc # "idle"

\* a handler may suspend only while fewer than MaxInFlight are suspended
MaySuspend == Cardinality(InFlight) < MaxInFlight

Error(status, message) == [status |-> status, error |-> message]

Done(q, resp) == [q EXCEPT !.pc = "done", !.resp = resp]

(***************************************************************************)
(* isRateLimited                                                           *)
(***************************************************************************)
\* RecentRequests that keeps the requests exactly RATE_LIMIT_WINDOW old
RecentRequestsInclusive(clientId) ==
    LET Recent(time) == now - time <= RATE_LIMIT_WINDOW
    IN  SelectSeq(rateLimitMap[clientId], Recent)

RecentRequests(clientId) ==
    LET Recent(time) == now - time < RATE_LIMIT_WINDOW
    IN  SelectSeq(rateLimitMap[clientId], Recent)

isRateLimited(clientId) == Len(RecentRequests(clientId)) >= MAX_REQUESTS_PER_WINDOW

\* rateLimitMap after isRateLimited(clientId) has run
RateLimitMapAfter(clientId) ==
    IF isRateLimited(clientId) THEN rateLimitMap
    ELSE [rateLimitMap EXCEPT ![clientId] = Append(RecentRequests(clientId), now)]

(***************************************************************************)
(* loadData                                                                *)
(***************************************************************************)
\* what a read of data/rooms.json can return: fs.writeFile truncates and
\* rewrites the file in place while saveData awaits it
Visible ==
    IF saver.pc = "write" THEN {file, Partial, Json(saver.snapshot)} ELSE {file}

\* JSON.parse of the content, {} when the file is missing or does not parse
ParsedRooms(content) == IF content.kind = "json" THEN content.rooms ELSE NoRooms

LoadMkdirDone ==
    /\ loader = "mkdir"
    /\ loader' = "read"
    /\ UNCHANGED <<rooms, heap, reqs, saveInProgress, saver, file, backups,
                   rateLimitMap, now, restarts>>

\* the rooms of roomsObj in the order of Object.entries
RoomsIn(roomsObj) ==
    LET Present(n) == roomsObj[RoomIdSeq[n]] # NoRoom
    IN  SelectSeq([n \in 1..Len(RoomIdSeq) |-> n], Present)

\* readFile returned: every entry of the file becomes a new room object that
\* rooms.set puts in place of whatever the registry held under that id
LoadReadDone ==
    /\ loader = "read"
    /\ \E content \in Visible :
          LET roomsObj == ParsedRooms(content)
              loaded == RoomsIn(roomsObj)
              Position(r) == CHOOSE k \in 1..Len(loaded) : RoomIdSeq[loaded[k]] = r
          IN  /\ heap' = heap \o [k \in 1..Len(loaded) |-> roomsObj[RoomIdSeq[loaded[k]]]]
              /\ rooms' = [r \in RoomIds |->
                               IF roomsObj[r] # NoRoom
                               THEN Len(heap) + Position(r)
                               ELSE rooms[r]]
    /\ loader' = "done"
    /\ UNCHANGED <<reqs, saveInProgress, saver, file, backups,
                   rateLimitMap, now, restarts>>

(***************************************************************************)
(* saveData                                                                *)
(***************************************************************************)
SaveMkdirDone ==
    /\ saver.pc = "mkdir"
    /\ saver' = [saver EXCEPT !.pc = "read"]
    /\ UNCHANGED <<rooms, heap, reqs, saveInProgress, file, backups, loader,
                   rateLimitMap, now, restarts>>

\* SaveReadDone without the catch for a missing file: the rejection ends
\* saveData in its outer catch, nothing is written and the handler resumes
SaveReadDoneUncaught ==
    /\ saver.pc = "read"
    /\ IF file = Missing
       THEN /\ saver' = SaverIdle
            /\ saveInProgress' = FALSE
            /\ reqs' = [reqs EXCEPT ![saver.owner] =
                           [reqs[saver.owner] EXCEPT
                               !.pc = "done",
                               !.resp = [status |-> 200, roomId |-> reqs[saver.owner].room]]]
       ELSE /\ saver' = [pc |-> "backup", owner |-> saver.owner, data |-> file]
            /\ UNCHANGED <<reqs, saveInProgress>>
    /\ UNCHANGED <<rooms, heap, file, backups, loader, rateLimitMap, now, restarts>>

\* readFile returned: with a file, its content goes to a backup; without
\* one the catch skips the backup and the snapshot is taken and written
SaveReadDone ==
    /\ saver.pc = "read"
    /\ IF file = Missing
       THEN saver' = [pc |-> "write", owner |-> saver.owner, snapshot |-> Snapshot]
       ELSE saver' = [pc |-> "backup", owner |-> saver.owner, data |-> file]
    /\ UNCHANGED <<rooms, heap, reqs, saveInProgress, file, backups, loader,
                   rateLimitMap, now, restarts>>

SaveBackupDone ==
    /\ saver.pc = "backup"
    /\ backups' = backups \cup {saver.data}
    /\ saver' = [pc |-> "write", owner |-> saver.owner, snapshot |-> Snapshot]
    /\ UNCHANGED <<rooms, heap, reqs, saveInProgress, file, loader,
                   rateLimitMap, now, restarts>>

\* the writeFile of the backup rejected (disk full, no permission): the
\* catch that is meant for a missing file swallows the error and saveData
\* goes on to take the snapshot and overwrite the file
SaveBackupFailed ==
    /\ saver.pc = "backup"
    /\ saver' = [pc |-> "write", owner |-> saver.owner, snapshot |-> Snapshot]
    /\ UNCHANGED <<rooms, heap, reqs, saveInProgress, file, backups, loader,
                   rateLimitMap, now, restarts>>

(***************************************************************************)
(* Responses that are built after `await saveData()`: they read the room   *)
(* as it is when the handler resumes.                                      *)
(***************************************************************************)
Usernames(participants) == [k \in DOMAIN participants |-> participants[k].username]

CreateRoomResponse(q, hs) ==
    LET room == hs[q.ref]
    IN  [status |-> 200, roomId |-> q.room,
         room |-> [id |-> room.id, name |-> room.name,
                   hostUsername |-> room.hostUsername,
                   participantCount |-> Len(room.participants),
                   status |-> room.status]]

RegisterExistingResponse(q, hs) ==
    LET room == hs[q.ref]
    IN  [status |-> 200, success |-> TRUE, alreadyRegistered |-> TRUE,
         isHost |-> FALSE, message |-> "Signed in successfully",
         username |-> q.loc.sanitizedUsername,
         keySalt |-> room.participants[q.loc.existingParticipant].keySalt,
         roomDetails |-> [id |-> room.id, name |-> room.name,
                          participants |-> Usernames(room.participants),
                          status |-> room.status]]

RegisterNewResponse(q, hs) ==
    LET room == hs[q.ref]
    IN  [status |-> 200, success |-> TRUE, alreadyRegistered |-> FALSE,
         isHost |-> q.loc.isHost, message |-> "Registered successfully",
         username |-> q.loc.sanitizedUsername,
         keySalt |-> q.loc.keySalt,
         roomDetails |-> [id |-> room.id, name |-> room.name,
                          hostUsername |-> room.hostUsername,
                          participants |-> Usernames(room.participants),
                          status |-> room.status]]

RemoveParticipantResponse(q, hs) ==
    [status |-> 200, success |-> TRUE, message |-> "Participant removed",
     participants |-> Usernames(hs[q.ref].participants)]

StartResponse(q, hs) ==
    LET room == hs[q.ref]
    IN  [status |-> 200, success |-> TRUE,
         message |-> "Room started and assignments generated",
         roomStatus |-> room.status,
         participantCount |-> Len(room.participants)]

\* the response of handler q once its `await saveData()` returns
AfterSave(q, hs) ==
    CASE q.op = "createRoom" -> CreateRoomResponse(q, hs)
      [] q.op = "register" /\ q.loc.existingParticipant # 0 -> RegisterExistingResponse(q, hs)
      [] q.op = "register" /\ q.loc.existingParticipant = 0 -> RegisterNewResponse(q, hs)
      [] q.op = "removeParticipant" -> RemoveParticipantResponse(q, hs)
      [] q.op = "start" -> StartResponse(q, hs)

\* `await saveData()` without the test of saveInProgress
AwaitSaveUnguarded(i, q, hs) ==
    /\ reqs' = [reqs EXCEPT ![i] = [q EXCEPT !.pc = "save"]]
    /\ saveInProgress' = TRUE
    /\ saver' = [pc |-> "mkdir", owner |-> i]

\* `await saveData()` in handler i, whose request has become q and which
\* leaves the room objects as hs.  While a save is in progress saveData returns
\* at once and the handler goes on to its response; otherwise saveData sets
\* the flag and suspends at mkdir.
AwaitSave(i, q, hs) ==
    IF saveInProgress
    THEN /\ reqs' = [reqs EXCEPT ![i] = Done(q, AfterSave(q, hs))]
         /\ UNCHANGED <<saveInProgress, saver>>
    ELSE /\ reqs' = [reqs EXCEPT ![i] = [q EXCEPT !.pc = "save"]]
         /\ saveInProgress' = TRUE
         /\ saver' = [pc |-> "mkdir", owner |-> i]

\* writeFile returned: the file holds the snapshot, the finally block clears
\* the flag, and the handler that awaited the save resumes and responds
SaveWriteDone ==
    /\ saver.pc = "write"
    /\ file' = Json(saver.snapshot)
    /\ saveInProgress' = FALSE
    /\ saver' = SaverIdle
    /\ reqs' = [reqs EXCEPT ![saver.owner] =
                   Done(reqs[saver.owner], AfterSave(reqs[saver.owner], heap))]
    /\ UNCHANGED <<rooms, heap, backups, loader, rateLimitMap, now, restarts>>

\* SaveWriteFailed with saveData letting the rejection through to the
\* handler, whose catch answers 500
SaveWriteFailedReports ==
    /\ saver.pc = "write"
    /\ file' \in {file, Partial}
    /\ saveInProgress' = FALSE
    /\ saver' = SaverIdle
    /\ reqs' = [reqs EXCEPT ![saver.owner] =
                   Done(reqs[saver.owner], Error(500, "Internal server error"))]
    /\ UNCHANGED <<rooms, heap, backups, loader, rateLimitMap, now, restarts>>

\* writeFile rejected (disk full, no permission), before or after it
\* truncated the file: the catch of saveData logs the error, the finally
\* block clears the flag, and the handler resumes and responds as after a
\* save that succeeded
SaveWriteFailed ==
    /\ saver.pc = "write"
    /\ file' \in {file, Partial}
    /\ saveInProgress' = FALSE
    /\ saver' = SaverIdle
    /\ reqs' = [reqs EXCEPT ![saver.owner] =
                   Done(reqs[saver.owner], AfterSave(reqs[saver.owner], heap))]
    /\ UNCHANGED <<rooms, heap, backups, loader, rateLimitMap, now, restarts>>

(***************************************************************************)
(* POST /api/rooms                                                         *)
(***************************************************************************)
\* a request as it arrives; ref is `rooms.get(roomId)`, 0 for undefined
NewReq(op, client, roomId, args) ==
    [op |-> op, pc |-> "start", client |-> client, room |-> roomId,
     ref |-> IF roomId \in RoomIds THEN rooms[roomId] ELSE 0,
     args |-> args, loc |-> NoLoc, resp |-> NoResp]

\* uuidv4() returns an identifier that no room has had
UsedRoomIds ==
    {r \in RoomIds : \/ rooms[r] # 0
                     \/ ParsedRooms(file)[r] # NoRoom
                     \/ \E j \in ReqIds : reqs[j].op = "createRoom" /\ reqs[j].room = r}

\* the rooms that the requests of the behaviour have created
CreatedRooms ==
    {r \in RoomIds : \E j \in ReqIds : reqs[j].op = "createRoom" /\ reqs[j].room = r}

uuidv4 == RoomIdSeq[CHOOSE n \in 1..Len(RoomIdSeq) :
                       /\ RoomIdSeq[n] \notin UsedRoomIds
                       /\ \A m \in 1..(n - 1) : RoomIdSeq[m] \in UsedRoomIds]

CreateRoomBegin(i, clientId, name, hostUsername, hostPassword) ==
    LET q == NewReq("createRoom", clientId, << >>,
                    [name |-> name, hostUsername |-> hostUsername,
                     hostPassword |-> hostPassword])
        sanitizedName == validateRoomName(name)
        sanitizedUsername == validateUsername(hostUsername)
    IN
    /\ Arrives(i)
    /\ rateLimitMap' = RateLimitMapAfter(clientId)
    /\ IF isRateLimited(clientId)
       THEN reqs' = [reqs EXCEPT ![i] =
                Done(q, Error(429, "Too many requests. Please wait a minute."))]
       ELSE IF name = << >> \/ hostUsername = << >> \/ hostPassword = << >>
       THEN reqs' = [reqs EXCEPT ![i] =
                Done(q, Error(400, "Room name, host username, and password are required"))]
       ELSE IF sanitizedName = Invalid
       THEN reqs' = [reqs EXCEPT ![i] = Done(q, Error(400, "Room name cannot be empty"))]
       ELSE IF sanitizedUsername = Invalid
       THEN reqs' = [reqs EXCEPT ![i] =
                Done(q, Error(400, "Username must be at least 2 characters"))]
       ELSE IF ~validatePassword(hostPassword)
       THEN reqs' = [reqs EXCEPT ![i] =
                Done(q, Error(400, "Password must be at least 4 characters"))]
       ELSE /\ MaySuspend
            /\ Cardinality(CreatedRooms) < MaxRooms
            /\ reqs' = [reqs EXCEPT ![i] =
                  [q EXCEPT !.pc = "hash",
                            !.room = uuidv4,
                            !.loc = [sanitizedName |-> sanitizedName,
                                     sanitizedUsername |-> sanitizedUsername]]]
    /\ UNCHANGED <<rooms, heap, saveInProgress, saver, file, backups, loader, now, restarts>>

\* hashPassword returned: the room enters the registry and is saved
CreateRoomHashed(i) ==
    LET q == reqs[i]
        room == [id |-> q.room,
                 name |-> q.loc.sanitizedName,
                 hostUsername |-> q.loc.sanitizedUsername,
                 hostLoginHash |-> hashPassword(q.loc.sanitizedUsername \o q.args.hostPassword),
                 participants |-> << >>,
                 status |-> "open",
                 createdAt |-> now]
        hs == Append(heap, room)
        created == [q EXCEPT !.ref = Len(hs)]
    IN
    /\ q.op = "createRoom" /\ q.pc = "hash"
    /\ heap' = hs
    /\ rooms' = [rooms EXCEPT ![q.room] = Len(hs)]
    /\ AwaitSave(i, created, hs)
    /\ UNCHANGED <<file, backups, loader, rateLimitMap, now, restarts>>

(***************************************************************************)
(* GET /api/rooms/:id                                                      *)
(***************************************************************************)
\* RoomInfo that counts the participants of every room of the registry
RoomInfoCountsAll(i, clientId, roomId) ==
    LET q == NewReq("roomInfo", clientId, roomId, [none |-> TRUE])
        room == Get(roomId)
        others == {r \in RoomIds : r # roomId /\ Get(r) # NoRoom}
        extra == IF others = {} THEN 0
                 ELSE Len(Get(CHOOSE r \in others : TRUE).participants)
    IN
    /\ Arrives(i)
    /\ IF room = NoRoom
       THEN reqs' = [reqs EXCEPT ![i] = Done(q, Error(404, "Room not found"))]
       ELSE reqs' = [reqs EXCEPT ![i] =
                Done(q, [status |-> 200, id |-> room.id, name |-> room.name,
                         participantCount |-> Len(room.participants) + extra,
                         roomStatus |-> room.status])]
    /\ UNCHANGED <<rooms, heap, saveInProgress, saver, file, backups, loader,
                   rateLimitMap, now, restarts>>

RoomInfo(i, clientId, roomId) ==
    LET q == NewReq("roomInfo", clientId, roomId, [none |-> TRUE])
        room == Get(roomId)
    IN
    /\ Arrives(i)
    /\ IF room = NoRoom
       THEN reqs' = [reqs EXCEPT ![i] = Done(q, Error(404, "Room not found"))]
       ELSE reqs' = [reqs EXCEPT ![i] =
                Done(q, [status |-> 200, id |-> room.id, name |-> room.name,
                         participantCount |-> Len(room.participants),
                         roomStatus |-> room.status])]
    /\ UNCHANGED <<rooms, heap, saveInProgress, saver, file, backups, loader,
                   rateLimitMap, now, restarts>>

(***************************************************************************)
(* generateKeySalt                                                         *)
(***************************************************************************)
\* crypto.randomBytes(32).toString('hex'): any value of the salt space
KeySalts == {"s1", "s2"}

(***************************************************************************)
(* POST /api/rooms/:id/init-register                                       *)
(***************************************************************************)
InitRegisterBegin(i, clientId, roomId, username, password) ==
    LET q == NewReq("initRegister", clientId, roomId,
                    [username |-> username, password |-> password])
        room == Get(roomId)
        sanitizedUsername == validateUsername(username)
        existingParticipant == FindParticipant(room.participants, sanitizedUsername)
    IN
    /\ Arrives(i)
    /\ IF username = << >> \/ password = << >>
       THEN reqs' = [reqs EXCEPT ![i] =
                Done(q, Error(400, "Username and password are required"))]
       ELSE IF room = NoRoom
       THEN reqs' = [reqs EXCEPT ![i] = Done(q, Error(404, "Room not found"))]
       ELSE IF room.status = "started"
       THEN reqs' = [reqs EXCEPT ![i] =
                Done(q, Error(400, "Room has already started. Registration is closed."))]
       ELSE IF sanitizedUsername = Invalid
       THEN reqs' = [reqs EXCEPT ![i] =
                Done(q, Error(400, "Username must be at least 2 characters"))]
       ELSE IF ~validatePassword(password)
       THEN reqs' = [reqs EXCEPT ![i] =
                Done(q, Error(400, "Password must be at least 4 characters"))]
       ELSE IF existingParticipant # 0
       THEN /\ MaySuspend
            /\ reqs' = [reqs EXCEPT ![i] =
                  [q EXCEPT !.pc = "verify",
                            !.loc = [existingParticipant |-> existingParticipant]]]
       ELSE \E keySalt \in KeySalts :
               reqs' = [reqs EXCEPT ![i] =
                  Done(q, [status |-> 200, keySalt |-> keySalt, alreadyExists |-> FALSE])]
    /\ UNCHANGED <<rooms, heap, saveInProgress, saver, file, backups, loader,
                   rateLimitMap, now, restarts>>

\* InitRegisterVerified that returns the salt whatever verifyPassword says
InitRegisterVerifiedAnySecret(i) ==
    LET q == reqs[i]
        existingParticipant == heap[q.ref].participants[q.loc.existingParticipant]
    IN
    /\ q.op = "initRegister" /\ q.pc = "verify"
    /\ IF FALSE
       THEN reqs' = [reqs EXCEPT ![i] =
                Done(q, Error(401, "Invalid password for this username"))]
       ELSE reqs' = [reqs EXCEPT ![i] =
                Done(q, [status |-> 200, keySalt |-> existingParticipant.keySalt,
                         alreadyExists |-> TRUE])]
    /\ UNCHANGED <<rooms, heap, saveInProgress, saver, file, backups, loader,
                   rateLimitMap, now, restarts>>

InitRegisterVerified(i) ==
    LET q == reqs[i]
        existingParticipant == heap[q.ref].participants[q.loc.existingParticipant]
    IN
    /\ q.op = "initRegister" /\ q.pc = "verify"
    /\ IF ~verifyPassword(q.args.password, existingParticipant.passwordHash)
       THEN reqs' = [reqs EXCEPT ![i] =
                Done(q, Error(401, "Invalid password for this username"))]
       ELSE reqs' = [reqs EXCEPT ![i] =
                Done(q, [status |-> 200, keySalt |-> existingParticipant.keySalt,
                         alreadyExists |-> TRUE])]
    /\ UNCHANGED <<rooms, heap, saveInProgress, saver, file, backups, loader,
                   rateLimitMap, now, restarts>>

(***************************************************************************)
(* POST /api/rooms/:id/register                                            *)
(***************************************************************************)
Temp == [kind |-> "text", text |-> "temp"]

\* publicKey && typeof publicKey === 'string'
IsGivenString(publicKey) == publicKey # Undefined

\* RegisterBegin without the test of room.status
RegisterBeginUnchecked(i, clientId, roomId, username, password, publicKey, keySalt) ==
    LET q == NewReq("register", clientId, roomId,
                    [username |-> username, password |-> password,
                     publicKey |-> publicKey, keySalt |-> keySalt])
        room == Get(roomId)
        sanitizedUsername == validateUsername(username)
    IN
    /\ Arrives(i)
    /\ rateLimitMap' = RateLimitMapAfter(clientId)
    /\ IF isRateLimited(clientId)
       THEN reqs' = [reqs EXCEPT ![i] =
                Done(q, Error(429, "Too many requests. Please wait a minute."))]
       ELSE IF username = << >> \/ password = << >>
       THEN reqs' = [reqs EXCEPT ![i] =
                Done(q, Error(400, "Username and password are required"))]
       ELSE IF room = NoRoom
       THEN reqs' = [reqs EXCEPT ![i] = Done(q, Error(404, "Room not found"))]
       ELSE IF sanitizedUsername = Invalid
       THEN reqs' = [reqs EXCEPT ![i] =
                Done(q, Error(400, "Username must be at least 2 characters"))]
       ELSE IF ~validatePassword(password)
       THEN reqs' = [reqs EXCEPT ![i] =
                Done(q, Error(400, "Password must be at least 4 characters"))]
       ELSE /\ MaySuspend
            /\ reqs' = [reqs EXCEPT ![i] =
                  [q EXCEPT !.pc = "verifyHost",
                            !.loc = [sanitizedUsername |-> sanitizedUsername]]]
    /\ UNCHANGED <<rooms, heap, saveInProgress, saver, file, backups, loader, now, restarts>>

RegisterBegin(i, clientId, roomId, username, password, publicKey, keySalt) ==
    LET q == NewReq("register", clientId, roomId,
                    [username |-> username, password |-> password,
                     publicKey |-> publicKey, keySalt |-> keySalt])
        room == Get(roomId)
        sanitizedUsername == validateUsername(username)
    IN
    /\ Arrives(i)
    /\ rateLimitMap' = RateLimitMapAfter(clientId)
    /\ IF isRateLimited(clientId)
       THEN reqs' = [reqs EXCEPT ![i] =
                Done(q, Error(429, "Too many requests. Please wait a minute."))]
       ELSE IF username = << >> \/ password = << >>
       THEN reqs' = [reqs EXCEPT ![i] =
                Done(q, Error(400, "Username and password are required"))]
       ELSE IF room = NoRoom
       THEN reqs' = [reqs EXCEPT ![i] = Done(q, Error(404, "Room not found"))]
       ELSE IF room.status = "started"
       THEN reqs' = [reqs EXCEPT ![i] =
                Done(q, Error(400, "Room has already started. Registration is closed."))]
       ELSE IF sanitizedUsername = Invalid
       THEN reqs' = [reqs EXCEPT ![i] =
                Done(q, Error(400, "Username must be at least 2 characters"))]
       ELSE IF ~validatePassword(password)
       THEN reqs' = [reqs EXCEPT ![i] =
                Done(q, Error(400, "Password must be at least 4 characters"))]
       ELSE /\ MaySuspend
            /\ reqs' = [reqs EXCEPT ![i] =
                  [q EXCEPT !.pc = "verifyHost",
                            !.loc = [sanitizedUsername |-> sanitizedUsername]]]
    /\ UNCHANGED <<rooms, heap, saveInProgress, saver, file, backups, loader, now, restarts>>

\* RegisterHostVerified that pushes the participant before it tests the key
RegisterHostVerifiedPushesFirst(i) ==
    LET q == reqs[i]
        room == heap[q.ref]
        sanitizedUsername == q.loc.sanitizedUsername
        isHost == verifyPassword(sanitizedUsername \o q.args.password, room.hostLoginHash)
        existingParticipant == FindParticipant(room.participants, sanitizedUsername)
    IN
    /\ q.op = "register" /\ q.pc = "verifyHost"
    /\ IF isHost /\ existingParticipant # 0
       THEN reqs' = [reqs EXCEPT ![i] =
                Done(q, [status |-> 200, success |-> TRUE, isHost |-> TRUE,
                         alreadyRegistered |-> TRUE,
                         message |-> "Host authenticated successfully",
                         username |-> sanitizedUsername,
                         roomDetails |-> [id |-> room.id, name |-> room.name,
                                          hostUsername |-> room.hostUsername,
                                          participants |-> Usernames(room.participants),
                                          status |-> room.status]])]
       ELSE IF existingParticipant # 0
       THEN reqs' = [reqs EXCEPT ![i] =
                [q EXCEPT !.pc = "verifyExisting",
                          !.loc = [sanitizedUsername |-> sanitizedUsername,
                                   isHost |-> isHost,
                                   existingParticipant |-> existingParticipant]]]
       ELSE IF ~IsGivenString(q.args.publicKey)
       THEN reqs' = [reqs EXCEPT ![i] =
                Done(q, Error(400, "Public key is required for registration"))]
       ELSE \E generated \in KeySalts :
               reqs' = [reqs EXCEPT ![i] =
                  [q EXCEPT !.pc = "hash",
                            !.loc = [sanitizedUsername |-> sanitizedUsername,
                                     isHost |-> isHost,
                                     existingParticipant |-> 0,
                                     keySalt |-> IF q.args.keySalt = ""
                                                 THEN generated
                                                 ELSE q.args.keySalt]]]
    /\ heap' = IF existingParticipant = 0 /\ ~IsGivenString(q.args.publicKey)
               THEN [heap EXCEPT ![q.ref].participants =
                        Append(@, [username |-> sanitizedUsername,
                                   passwordHash |-> hashPassword(q.args.password),
                                   publicKey |-> q.args.publicKey,
                                   keySalt |-> q.args.keySalt,
                                   encryptedAssignment |-> Null])]
               ELSE heap
    /\ UNCHANGED <<rooms, saveInProgress, saver, file, backups, loader,
                   rateLimitMap, now, restarts>>

\* verifyPassword(hostLoginHash, room.hostLoginHash) returned
RegisterHostVerified(i) ==
    LET q == reqs[i]
        room == heap[q.ref]
        sanitizedUsername == q.loc.sanitizedUsername
        isHost == verifyPassword(sanitizedUsername \o q.args.password, room.hostLoginHash)
        existingParticipant == FindParticipant(room.participants, sanitizedUsername)
    IN
    /\ q.op = "register" /\ q.pc = "verifyHost"
    /\ IF isHost /\ existingParticipant # 0
       THEN reqs' = [reqs EXCEPT ![i] =
                Done(q, [status |-> 200, success |-> TRUE, isHost |-> TRUE,
                         alreadyRegistered |-> TRUE,
                         message |-> "Host authenticated successfully",
                         username |-> sanitizedUsername,
                         roomDetails |-> [id |-> room.id, name |-> room.name,
                                          hostUsername |-> room.hostUsername,
                                          participants |-> Usernames(room.participants),
                                          status |-> room.status]])]
       ELSE IF existingParticipant # 0
       THEN reqs' = [reqs EXCEPT ![i] =
                [q EXCEPT !.pc = "verifyExisting",
                          !.loc = [sanitizedUsername |-> sanitizedUsername,
                                   isHost |-> isHost,
                                   existingParticipant |-> existingParticipant]]]
       ELSE IF ~IsGivenString(q.args.publicKey)
       THEN reqs' = [reqs EXCEPT ![i] =
                Done(q, Error(400, "Public key is required for registration"))]
       ELSE \E generated \in KeySalts :
               reqs' = [reqs EXCEPT ![i] =
                  [q EXCEPT !.pc = "hash",
                            !.loc = [sanitizedUsername |-> sanitizedUsername,
                                     isHost |-> isHost,
                                     existingParticipant |-> 0,
                                     keySalt |-> IF q.args.keySalt = ""
                                                 THEN generated
                                                 ELSE q.args.keySalt]]]
    /\ UNCHANGED <<rooms, heap, saveInProgress, saver, file, backups, loader,
                   rateLimitMap, now, restarts>>

\* RegisterExistingVerified that never stores the key or the salt supplied
RegisterExistingVerifiedKeepsKey(i) ==
    LET q == reqs[i]
        room == heap[q.ref]
        existingParticipant == room.participants[q.loc.existingParticipant]
    IN
    /\ q.op = "register" /\ q.pc = "verifyExisting"
    /\ IF ~verifyPassword(q.args.password, existingParticipant.passwordHash)
       THEN reqs' = [reqs EXCEPT ![i] =
                Done(q, Error(401, "Invalid password for this username"))]
       ELSE reqs' = [reqs EXCEPT ![i] = Done(q, RegisterExistingResponse(q, heap))]
    /\ UNCHANGED <<rooms, heap, saveInProgress, saver, file, backups, loader,
                   rateLimitMap, now, restarts>>

\* verifyPassword(password, existingParticipant.passwordHash) returned
RegisterExistingVerified(i) ==
    LET q == reqs[i]
        room == heap[q.ref]
        k == q.loc.existingParticipant
        existingParticipant == room.participants[k]
        updated == [existingParticipant EXCEPT
                       !.publicKey = q.args.publicKey,
                       !.keySalt = IF q.args.keySalt # "" THEN q.args.keySalt ELSE @]
        hs == [heap EXCEPT ![q.ref].participants[k] = updated]
    IN
    /\ q.op = "register" /\ q.pc = "verifyExisting"
    /\ IF ~verifyPassword(q.args.password, existingParticipant.passwordHash)
       THEN /\ reqs' = [reqs EXCEPT ![i] =
                   Done(q, Error(401, "Invalid password for this username"))]
            /\ UNCHANGED <<heap, saveInProgress, saver>>
       ELSE IF IsGivenString(q.args.publicKey) /\ q.args.publicKey # Temp
       THEN /\ heap' = hs
            /\ AwaitSave(i, q, hs)
       ELSE /\ reqs' = [reqs EXCEPT ![i] = Done(q, RegisterExistingResponse(q, heap))]
            /\ UNCHANGED <<heap, saveInProgress, saver>>
    /\ UNCHANGED <<rooms, file, backups, loader, rateLimitMap, now, restarts>>

\* RegisterHashed with the push left out while a save is in progress
RegisterHashedDeferred(i) ==
    LET q == reqs[i]
        participant == [username |-> q.loc.sanitizedUsername,
                        passwordHash |-> hashPassword(q.args.password),
                        publicKey |-> q.args.publicKey,
                        keySalt |-> q.loc.keySalt,
                        encryptedAssignment |-> Null]
        hs == IF saveInProgress THEN heap
              ELSE [heap EXCEPT ![q.ref].participants = Append(@, participant)]
    IN
    /\ q.op = "register" /\ q.pc = "hash"
    /\ heap' = hs
    /\ AwaitSave(i, q, hs)
    /\ UNCHANGED <<rooms, file, backups, loader, rateLimitMap, now, restarts>>

\* hashPassword(password) returned: the participant is pushed and saved
RegisterHashed(i) ==
    LET q == reqs[i]
        participant == [username |-> q.loc.sanitizedUsername,
                        passwordHash |-> hashPassword(q.args.password),
                        publicKey |-> q.args.publicKey,
                        keySalt |-> q.loc.keySalt,
                        encryptedAssignment |-> Null]
        hs == [heap EXCEPT ![q.ref].participants = Append(@, participant)]
    IN
    /\ q.op = "register" /\ q.pc = "hash"
    /\ heap' = hs
    /\ AwaitSave(i, q, hs)
    /\ UNCHANGED <<rooms, file, backups, loader, rateLimitMap, now, restarts>>

(***************************************************************************)
(* POST /api/rooms/:id/host-auth                                           *)
(***************************************************************************)
HostAuthBegin(i, clientId, roomId, username, password) ==
    LET q == NewReq("hostAuth", clientId, roomId,
                    [username |-> username, password |-> password])
    IN
    /\ Arrives(i)
    /\ IF username = << >> \/ password = << >>
       THEN reqs' = [reqs EXCEPT ![i] =
                Done(q, Error(400, "Username and password are required"))]
       ELSE IF Get(roomId) = NoRoom
       THEN reqs' = [reqs EXCEPT ![i] = Done(q, Error(404, "Room not found"))]
       ELSE /\ MaySuspend
            /\ reqs' = [reqs EXCEPT ![i] = [q EXCEPT !.pc = "verify"]]
    /\ UNCHANGED <<rooms, heap, saveInProgress, saver, file, backups, loader,
                   rateLimitMap, now, restarts>>

\* HostAuthVerified that answers only while the room is open
HostAuthVerifiedOpenOnly(i) ==
    LET q == reqs[i]
        room == heap[q.ref]
    IN
    /\ q.op = "hostAuth" /\ q.pc = "verify"
    /\ IF ~verifyPassword(q.args.username \o q.args.password, room.hostLoginHash)
       THEN reqs' = [reqs EXCEPT ![i] = Done(q, Error(401, "Invalid host credentials"))]
       ELSE IF room.status = "started"
       THEN reqs' = [reqs EXCEPT ![i] = Done(q, Error(400, "Room has already started"))]
       ELSE reqs' = [reqs EXCEPT ![i] =
                Done(q, [status |-> 200, id |-> room.id, name |-> room.name,
                         hostUsername |-> room.hostUsername,
                         participants |->
                             [k \in DOMAIN room.participants |->
                                 [username |-> room.participants[k].username,
                                  hasAssignment |->
                                      room.participants[k].encryptedAssignment # Null]],
                         roomStatus |-> room.status,
                         createdAt |-> room.createdAt])]
    /\ UNCHANGED <<rooms, heap, saveInProgress, saver, file, backups, loader,
                   rateLimitMap, now, restarts>>

HostAuthVerified(i) ==
    LET q == reqs[i]
        room == heap[q.ref]
    IN
    /\ q.op = "hostAuth" /\ q.pc = "verify"
    /\ IF ~verifyPassword(q.args.username \o q.args.password, room.hostLoginHash)
       THEN reqs' = [reqs EXCEPT ![i] = Done(q, Error(401, "Invalid host credentials"))]
       ELSE reqs' = [reqs EXCEPT ![i] =
                Done(q, [status |-> 200, id |-> room.id, name |-> room.name,
                         hostUsername |-> room.hostUsername,
                         participants |->
                             [k \in DOMAIN room.participants |->
                                 [username |-> room.participants[k].username,
                                  hasAssignment |->
                                      room.participants[k].encryptedAssignment # Null]],
                         roomStatus |-> room.status,
                         createdAt |-> room.createdAt])]
    /\ UNCHANGED <<rooms, heap, saveInProgress, saver, file, backups, loader,
                   rateLimitMap, now, restarts>>

(***************************************************************************)
(* POST /api/rooms/:id/remove-participant                                  *)
(***************************************************************************)
RECURSIVE FilterOut(_, _)
\* participants.filter(p => p.username !== username)
FilterOut(participants, username) ==
    IF participants = << >> THEN << >>
    ELSE IF Head(participants).username # username
         THEN <<Head(participants)>> \o FilterOut(Tail(participants), username)
         ELSE FilterOut(Tail(participants), username)

\* const loginHash = hashPassword(hostUsername + hostPassword): not awaited
RemoveLoginHash(hostUsername, hostPassword) ==
    Promise(hashPassword(hostUsername \o hostPassword))

\* RemoveParticipant with the host credentials verified as start verifies them
RemoveParticipantAwaited(i, clientId, roomId, hostUsername, hostPassword, username) ==
    LET q == [NewReq("removeParticipant", clientId, roomId,
                     [hostUsername |-> hostUsername, hostPassword |-> hostPassword,
                      username |-> username])
                 EXCEPT !.loc = [existingParticipant |-> 0]]
        room == Get(roomId)
        remaining == FilterOut(room.participants, username)
        hs == [heap EXCEPT ![q.ref].participants = remaining]
    IN
    /\ Arrives(i)
    /\ IF hostUsername = << >> \/ hostPassword = << >> \/ username = << >>
       THEN /\ reqs' = [reqs EXCEPT ![i] =
                   Done(q, Error(400, "Host username, password and participant username are required"))]
            /\ UNCHANGED <<heap, saveInProgress, saver>>
       ELSE IF room = NoRoom
       THEN /\ reqs' = [reqs EXCEPT ![i] = Done(q, Error(404, "Room not found"))]
            /\ UNCHANGED <<heap, saveInProgress, saver>>
       ELSE IF ~verifyPassword(hostUsername \o hostPassword, room.hostLoginHash)
       THEN /\ reqs' = [reqs EXCEPT ![i] = Done(q, Error(401, "Invalid host credentials"))]
            /\ UNCHANGED <<heap, saveInProgress, saver>>
       ELSE IF room.status = "started"
       THEN /\ reqs' = [reqs EXCEPT ![i] =
                   Done(q, Error(400, "Cannot remove participants after room has started"))]
            /\ UNCHANGED <<heap, saveInProgress, saver>>
       ELSE IF Len(remaining) = Len(room.participants)
       THEN /\ heap' = hs
            /\ reqs' = [reqs EXCEPT ![i] = Done(q, Error(404, "Participant not found"))]
            /\ UNCHANGED <<saveInProgress, saver>>
       ELSE /\ heap' = hs
            /\ saveInProgress \/ MaySuspend
            /\ AwaitSave(i, q, hs)
    /\ UNCHANGED <<rooms, file, backups, loader, rateLimitMap, now, restarts>>

RemoveParticipant(i, clientId, roomId, hostUsername, hostPassword, username) ==
    LET q == [NewReq("removeParticipant", clientId, roomId,
                     [hostUsername |-> hostUsername, hostPassword |-> hostPassword,
                      username |-> username])
                 EXCEPT !.loc = [existingParticipant |-> 0]]
        room == Get(roomId)
        loginHash == RemoveLoginHash(hostUsername, hostPassword)
        remaining == FilterOut(room.participants, username)
        hs == [heap EXCEPT ![q.ref].participants = remaining]
    IN
    /\ Arrives(i)
    /\ IF hostUsername = << >> \/ hostPassword = << >> \/ username = << >>
       THEN /\ reqs' = [reqs EXCEPT ![i] =
                   Done(q, Error(400, "Host username, password and participant username are required"))]
            /\ UNCHANGED <<heap, saveInProgress, saver>>
       ELSE IF room = NoRoom
       THEN /\ reqs' = [reqs EXCEPT ![i] = Done(q, Error(404, "Room not found"))]
            /\ UNCHANGED <<heap, saveInProgress, saver>>
       ELSE IF loginHash # room.hostLoginHash
       THEN /\ reqs' = [reqs EXCEPT ![i] = Done(q, Error(401, "Invalid host credentials"))]
            /\ UNCHANGED <<heap, saveInProgress, saver>>
       ELSE IF room.status = "started"
       THEN /\ reqs' = [reqs EXCEPT ![i] =
                   Done(q, Error(400, "Cannot remove participants after room has started"))]
            /\ UNCHANGED <<heap, saveInProgress, saver>>
       ELSE IF Len(remaining) = Len(room.participants)
       THEN /\ heap' = hs
            /\ reqs' = [reqs EXCEPT ![i] = Done(q, Error(404, "Participant not found"))]
            /\ UNCHANGED <<saveInProgress, saver>>
       ELSE /\ heap' = hs
            /\ saveInProgress \/ MaySuspend
            /\ AwaitSave(i, q, hs)
    /\ UNCHANGED <<rooms, file, backups, loader, rateLimitMap, now, restarts>>

(***************************************************************************)
(* generateSecretSantaAssignments                                          *)
(***************************************************************************)
Perms(n) == {f \in [1..n -> 1..n] : \A a, b \in 1..n : f[a] = f[b] => a = b}

\* [...usernames].sort(() => Math.random() - 0.5): some rearrangement
Shuffles(usernames) ==
    {[k \in DOMAIN usernames |-> usernames[f[k]]] : f \in Perms(Len(usernames))}

\* IsValidDraw without the comparison at the last position
IsValidDrawButLast(usernames, shuffled) ==
    \A k \in 1..(Len(usernames) - 1) : usernames[k] # shuffled[k]

IsValidDraw(usernames, shuffled) ==
    \A k \in DOMAIN usernames : usernames[k] # shuffled[k]

GenerationFailed == [thrown |-> TRUE, assignments |-> << >>]

\* What the function can end with.  The loop returns the first draw without
\* a giver that is their own receiver, and throws when no draw out of
\* maxAttempts is one: a run of maxAttempts rejected draws exists whenever
\* one rejected draw exists.
generateSecretSantaAssignments(participants) ==
    LET usernames == Usernames(participants)
        draws == Shuffles(usernames)
    IN  {[thrown |-> FALSE,
          assignments |-> [k \in DOMAIN usernames |->
                              [username |-> usernames[k],
                               giftRecipient |-> shuffled[k]]]] :
           shuffled \in {d \in draws : IsValidDraw(usernames, d)}}
        \cup (IF maxAttempts > 0 /\ \E d \in draws : ~IsValidDraw(usernames, d)
              THEN {GenerationFailed} ELSE {})

\* generateSecretSantaAssignments(room.participants) is called, as start
\* calls it; the code runs to its end before anything else does
GenerateCall(i, roomId) ==
    /\ Arrives(i)
    /\ InFlight = {}
    /\ Get(roomId) # NoRoom
    /\ reqs' = [reqs EXCEPT ![i] =
          [NewReq("generateSecretSantaAssignments", "none", roomId,
                  [participants |-> Get(roomId).participants])
              EXCEPT !.pc = "loop", !.loc = [attempts |-> 0]]]
    /\ UNCHANGED <<rooms, heap, saveInProgress, saver, file, backups, loader,
                   rateLimitMap, now, restarts>>

\* GenerateAttempt without the test attempts < maxAttempts
GenerateAttemptUncapped(i) ==
    LET q == reqs[i]
        usernames == Usernames(q.args.participants)
    IN
    /\ q.op = "generateSecretSantaAssignments" /\ q.pc = "loop"
    /\ \E shuffled \in Shuffles(usernames) :
          IF IsValidDraw(usernames, shuffled)
          THEN reqs' = [reqs EXCEPT ![i] =
                   Done(q, [thrown |-> FALSE,
                            assignments |-> [k \in DOMAIN usernames |->
                                [username |-> usernames[k],
                                 giftRecipient |-> shuffled[k]]]])]
          ELSE reqs' = [reqs EXCEPT ![i].loc.attempts = @ + 1]
    /\ UNCHANGED <<rooms, heap, saveInProgress, saver, file, backups, loader,
                   rateLimitMap, now, restarts>>

\* one turn of the while loop, or the throw that follows the loop
GenerateAttempt(i) ==
    LET q == reqs[i]
        usernames == Usernames(q.args.participants)
    IN
    /\ q.op = "generateSecretSantaAssignments" /\ q.pc = "loop"
    /\ IF q.loc.attempts < maxAttempts
       THEN \E shuffled \in Shuffles(usernames) :
               IF IsValidDraw(usernames, shuffled)
               THEN reqs' = [reqs EXCEPT ![i] =
                        Done(q, [thrown |-> FALSE,
                                 assignments |-> [k \in DOMAIN usernames |->
                                     [username |-> usernames[k],
                                      giftRecipient |-> shuffled[k]]]])]
               ELSE reqs' = [reqs EXCEPT ![i].loc.attempts = @ + 1]
       ELSE reqs' = [reqs EXCEPT ![i] = Done(q, GenerationFailed)]
    /\ UNCHANGED <<rooms, heap, saveInProgress, saver, file, backups, loader,
                   rateLimitMap, now, restarts>>

(***************************************************************************)
(* POST /api/rooms/:id/start                                               *)
(***************************************************************************)
\* assignments.map(...): the index of the first assignment whose
\* participant's key does not parse, 0 if all encrypt
RECURSIVE FirstEncryptFailure(_, _, _)
FirstEncryptFailure(participants, assignments, k) ==
    IF k > Len(assignments) THEN 0
    ELSE IF ~IsPem(participants[FindParticipant(participants,
                                                assignments[k].username)].publicKey)
         THEN k
         ELSE FirstEncryptFailure(participants, assignments, k + 1)

EncryptedAssignments(participants, assignments) ==
    [k \in DOMAIN assignments |->
        [username |-> assignments[k].username,
         encryptedAssignment |->
             Encrypt(assignments[k].giftRecipient,
                     participants[FindParticipant(participants,
                                                  assignments[k].username)].publicKey)]]

\* encryptedAssignments.forEach(...), from the k-th element on
RECURSIVE StoreAssignments(_, _, _)
StoreAssignments(participants, encryptedAssignments, k) ==
    IF k > Len(encryptedAssignments) THEN participants
    ELSE LET p == FindParticipant(participants, encryptedAssignments[k].username)
             stored == IF p = 0 THEN participants
                       ELSE [participants EXCEPT ![p].encryptedAssignment =
                                encryptedAssignments[k].encryptedAssignment]
         IN  StoreAssignments(stored, encryptedAssignments, k + 1)

EncryptError(username) ==
    [status |-> 500, error |-> "Failed to encrypt assignment for", username |-> username]

\* how many elements of encryptedAssignments the forEach stores on the
\* participant at position p: element k carries participants[k].username
AssignmentWrites(participants, p) ==
    Cardinality({k \in DOMAIN participants :
                    FindParticipant(participants, participants[k].username) = p})

MissingKeys(participants) ==
    {k \in DOMAIN participants : participants[k].publicKey = Undefined}

StartBegin(i, clientId, roomId, hostUsername, hostPassword) ==
    LET q == NewReq("start", clientId, roomId,
                    [hostUsername |-> hostUsername, hostPassword |-> hostPassword])
    IN
    /\ Arrives(i)
    /\ IF hostUsername = << >> \/ hostPassword = << >>
       THEN reqs' = [reqs EXCEPT ![i] =
                Done(q, Error(400, "Host username and password are required"))]
       ELSE IF Get(roomId) = NoRoom
       THEN reqs' = [reqs EXCEPT ![i] = Done(q, Error(404, "Room not found"))]
       ELSE /\ MaySuspend
            /\ reqs' = [reqs EXCEPT ![i] = [q EXCEPT !.pc = "verify"]]
    /\ UNCHANGED <<rooms, heap, saveInProgress, saver, file, backups, loader,
                   rateLimitMap, now, restarts>>

\* StartedRoom that also keeps the assignments as generated on the room
StartedRoomKeepsAssignments(room, assignments) ==
    [f \in DOMAIN room \cup {"assignments"} |->
        IF f = "assignments" THEN assignments
        ELSE IF f = "participants"
             THEN StoreAssignments(room.participants,
                      EncryptedAssignments(room.participants, assignments), 1)
        ELSE IF f = "status" THEN "started"
        ELSE room[f]]

\* the room after start has stored the assignments
StartedRoom(room, assignments) ==
    [room EXCEPT
        !.participants = StoreAssignments(room.participants,
                             EncryptedAssignments(room.participants, assignments), 1),
        !.status = "started"]

\* StartVerified without the test of room.participants.length
StartVerifiedNoMinimum(i) ==
    LET q == reqs[i]
        room == heap[q.ref]
    IN
    /\ q.op = "start" /\ q.pc = "verify"
    /\ IF ~verifyPassword(q.args.hostUsername \o q.args.hostPassword, room.hostLoginHash)
       THEN /\ reqs' = [reqs EXCEPT ![i] = Done(q, Error(401, "Invalid host credentials"))]
            /\ UNCHANGED <<heap, saveInProgress, saver>>
       ELSE IF room.status = "started"
       THEN /\ reqs' = [reqs EXCEPT ![i] = Done(q, Error(400, "Room has already started"))]
            /\ UNCHANGED <<heap, saveInProgress, saver>>
       ELSE IF MissingKeys(room.participants) # {}
       THEN /\ reqs' = [reqs EXCEPT ![i] =
                   Done(q, Error(400, "Some participants are missing public keys"))]
            /\ UNCHANGED <<heap, saveInProgress, saver>>
       ELSE \E generated \in generateSecretSantaAssignments(room.participants) :
               IF generated.thrown
               THEN /\ reqs' = [reqs EXCEPT ![i] =
                           Done(q, Error(500, "Failed to generate valid Secret Santa assignments"))]
                    /\ UNCHANGED <<heap, saveInProgress, saver>>
               ELSE IF FirstEncryptFailure(room.participants, generated.assignments, 1) # 0
               THEN /\ reqs' = [reqs EXCEPT ![i] = Done(q, EncryptError(
                           generated.assignments[FirstEncryptFailure(
                               room.participants, generated.assignments, 1)].username))]
                    /\ UNCHANGED <<heap, saveInProgress, saver>>
               ELSE LET hs == [heap EXCEPT ![q.ref] =
                                  StartedRoom(room, generated.assignments)]
                    IN  /\ heap' = hs
                        /\ AwaitSave(i, q, hs)
    /\ UNCHANGED <<rooms, file, backups, loader, rateLimitMap, now, restarts>>

\* StartVerified with each assignment stored as soon as it is encrypted
StartVerifiedPartial(i) ==
    LET q == reqs[i]
        room == heap[q.ref]
    IN
    /\ q.op = "start" /\ q.pc = "verify"
    /\ IF ~verifyPassword(q.args.hostUsername \o q.args.hostPassword, room.hostLoginHash)
       THEN /\ reqs' = [reqs EXCEPT ![i] = Done(q, Error(401, "Invalid host credentials"))]
            /\ UNCHANGED <<heap, saveInProgress, saver>>
       ELSE IF room.status = "started"
       THEN /\ reqs' = [reqs EXCEPT ![i] = Done(q, Error(400, "Room has already started"))]
            /\ UNCHANGED <<heap, saveInProgress, saver>>
       ELSE IF Len(room.participants) < 2
       THEN /\ reqs' = [reqs EXCEPT ![i] =
                   Done(q, Error(400, "At least 2 participants are required"))]
            /\ UNCHANGED <<heap, saveInProgress, saver>>
       ELSE IF MissingKeys(room.participants) # {}
       THEN /\ reqs' = [reqs EXCEPT ![i] =
                   Done(q, Error(400, "Some participants are missing public keys"))]
            /\ UNCHANGED <<heap, saveInProgress, saver>>
       ELSE \E generated \in generateSecretSantaAssignments(room.participants) :
               IF generated.thrown
               THEN /\ reqs' = [reqs EXCEPT ![i] =
                           Done(q, Error(500, "Failed to generate valid Secret Santa assignments"))]
                    /\ UNCHANGED <<heap, saveInProgress, saver>>
               ELSE IF FirstEncryptFailure(room.participants, generated.assignments, 1) # 0
               THEN /\ reqs' = [reqs EXCEPT ![i] = Done(q, EncryptError(
                           generated.assignments[FirstEncryptFailure(
                               room.participants, generated.assignments, 1)].username))]
                    /\ heap' = [heap EXCEPT ![q.ref].participants =
                           StoreAssignments(room.participants,
                               EncryptedAssignments(room.participants,
                                   SubSeq(generated.assignments, 1,
                                          FirstEncryptFailure(room.participants,
                                              generated.assignments, 1) - 1)), 1)]
                    /\ UNCHANGED <<saveInProgress, saver>>
               ELSE LET hs == [heap EXCEPT ![q.ref] =
                                  StartedRoom(room, generated.assignments)]
                    IN  /\ heap' = hs
                        /\ AwaitSave(i, q, hs)
    /\ UNCHANGED <<rooms, file, backups, loader, rateLimitMap, now, restarts>>

\* verifyPassword(loginHash, room.hostLoginHash) returned
StartVerified(i) ==
    LET q == reqs[i]
        room == heap[q.ref]
    IN
    /\ q.op = "start" /\ q.pc = "verify"
    /\ IF ~verifyPassword(q.args.hostUsername \o q.args.hostPassword, room.hostLoginHash)
       THEN /\ reqs' = [reqs EXCEPT ![i] = Done(q, Error(401, "Invalid host credentials"))]
            /\ UNCHANGED <<heap, saveInProgress, saver>>
       ELSE IF room.status = "started"
       THEN /\ reqs' = [reqs EXCEPT ![i] = Done(q, Error(400, "Room has already started"))]
            /\ UNCHANGED <<heap, saveInProgress, saver>>
       ELSE IF Len(room.participants) < 2
       THEN /\ reqs' = [reqs EXCEPT ![i] =
                   Done(q, Error(400, "At least 2 participants are required"))]
            /\ UNCHANGED <<heap, saveInProgress, saver>>
       ELSE IF MissingKeys(room.participants) # {}
       THEN /\ reqs' = [reqs EXCEPT ![i] =
                   Done(q, Error(400, "Some participants are missing public keys"))]
            /\ UNCHANGED <<heap, saveInProgress, saver>>
       ELSE \E generated \in generateSecretSantaAssignments(room.participants) :
               IF generated.thrown
               THEN /\ reqs' = [reqs EXCEPT ![i] =
                           Done(q, Error(500, "Failed to generate valid Secret Santa assignments"))]
                    /\ UNCHANGED <<heap, saveInProgress, saver>>
               ELSE IF FirstEncryptFailure(room.participants, generated.assignments, 1) # 0
               THEN /\ reqs' = [reqs EXCEPT ![i] = Done(q, EncryptError(
                           generated.assignments[FirstEncryptFailure(
                               room.participants, generated.assignments, 1)].username))]
                    /\ UNCHANGED <<heap, saveInProgress, saver>>
               ELSE LET hs == [heap EXCEPT ![q.ref] =
                                  StartedRoom(room, generated.assignments)]
                    IN  /\ heap' = hs
                        /\ AwaitSave(i, q, hs)
    /\ UNCHANGED <<rooms, file, backups, loader, rateLimitMap, now, restarts>>

(***************************************************************************)
(* POST /api/rooms/:id/login                                               *)
(***************************************************************************)
LoginBegin(i, clientId, roomId, username, password) ==
    LET q == NewReq("login", clientId, roomId,
                    [username |-> username, password |-> password])
        room == Get(roomId)
        participant == FindParticipant(room.participants, username)
    IN
    /\ Arrives(i)
    /\ IF username = << >> \/ password = << >>
       THEN reqs' = [reqs EXCEPT ![i] =
                Done(q, Error(400, "Username and password are required"))]
       ELSE IF room = NoRoom
       THEN reqs' = [reqs EXCEPT ![i] = Done(q, Error(404, "Room not found"))]
       ELSE IF participant = 0
       THEN reqs' = [reqs EXCEPT ![i] = Done(q, Error(404, "User not found in this room"))]
       ELSE /\ MaySuspend
            /\ reqs' = [reqs EXCEPT ![i] =
                  [q EXCEPT !.pc = "verify", !.loc = [participant |-> participant]]]
    /\ UNCHANGED <<rooms, heap, saveInProgress, saver, file, backups, loader,
                   rateLimitMap, now, restarts>>

\* LoginVerified without the test of room.status
LoginVerifiedAnyStatus(i) ==
    LET q == reqs[i]
        room == heap[q.ref]
        participant == room.participants[q.loc.participant]
    IN
    /\ q.op = "login" /\ q.pc = "verify"
    /\ IF ~verifyPassword(q.args.password, participant.passwordHash)
       THEN reqs' = [reqs EXCEPT ![i] = Done(q, Error(401, "Invalid password"))]
       ELSE reqs' = [reqs EXCEPT ![i] =
                Done(q, [status |-> 200, success |-> TRUE,
                         username |-> participant.username,
                         roomName |-> room.name,
                         keySalt |-> participant.keySalt,
                         encryptedAssignment |-> participant.encryptedAssignment])]
    /\ UNCHANGED <<rooms, heap, saveInProgress, saver, file, backups, loader,
                   rateLimitMap, now, restarts>>

\* verifyPassword(password, participant.passwordHash) returned
LoginVerified(i) ==
    LET q == reqs[i]
        room == heap[q.ref]
        participant == room.participants[q.loc.participant]
    IN
    /\ q.op = "login" /\ q.pc = "verify"
    /\ IF ~verifyPassword(q.args.password, participant.passwordHash)
       THEN reqs' = [reqs EXCEPT ![i] = Done(q, Error(401, "Invalid password"))]
       ELSE IF room.status # "started"
       THEN reqs' = [reqs EXCEPT ![i] =
                Done(q, [status |-> 400, error |-> "Room has not started yet",
                         roomStatus |-> room.status])]
       ELSE reqs' = [reqs EXCEPT ![i] =
                Done(q, [status |-> 200, success |-> TRUE,
                         username |-> participant.username,
                         roomName |-> room.name,
                         keySalt |-> participant.keySalt,
                         encryptedAssignment |-> participant.encryptedAssignment])]
    /\ UNCHANGED <<rooms, heap, saveInProgress, saver, file, backups, loader,
                   rateLimitMap, now, restarts>>

(***************************************************************************)
(* Process start: app.listen's callback has called loadData(), which is    *)
(* suspended at its mkdir; the registry and the rate limiter are empty.    *)
(***************************************************************************)
Init ==
    /\ rooms = [r \in RoomIds |-> 0]
    /\ heap = << >>
    /\ reqs = [i \in ReqIds |-> Idle]
    /\ saveInProgress = FALSE
    /\ saver = SaverIdle
    /\ file = Missing
    /\ backups = {}
    /\ loader = "mkdir"
    /\ rateLimitMap = [c \in Clients |-> << >>]
    /\ now = 0
    /\ restarts = 0

\* The process is stopped while it is idle and started again: memory is
\* lost, the files stay.
Restart ==
    /\ restarts < MaxRestarts
    /\ InFlight = {}
    /\ saver.pc = "idle"
    /\ loader = "done"
    /\ heap # << >>
    /\ restarts' = restarts + 1
    /\ rooms' = [r \in RoomIds |-> 0]
    /\ heap' = << >>
    /\ saveInProgress' = FALSE
    /\ loader' = "mkdir"
    /\ rateLimitMap' = [c \in Clients |-> << >>]
    /\ UNCHANGED <<reqs, saver, file, backups, now>>

\* The process is killed while saveData runs and is started again.  Memory
\* and the requests in flight are lost.  A writeFile that was cut short
\* leaves the file as it was, truncated or partly written, or complete; the
\* backup that was being written may or may not be there.
Crash ==
    /\ restarts < MaxRestarts
    /\ saver.pc # "idle"
    /\ restarts' = restarts + 1
    /\ file' \in Visible
    /\ backups' \in IF saver.pc = "backup"
                    THEN {backups, backups \cup {saver.data}}
                    ELSE {backups}
    /\ reqs' = [i \in ReqIds |->
                   IF i \in InFlight
                   THEN Done(reqs[i], Error(0, "connection closed"))
                   ELSE reqs[i]]
    /\ rooms' = [r \in RoomIds |-> 0]
    /\ heap' = << >>
    /\ saveInProgress' = FALSE
    /\ saver' = SaverIdle
    /\ loader' = "mkdir"
    /\ rateLimitMap' = [c \in Clients |-> << >>]
    /\ UNCHANGED now

(***************************************************************************)
(* Inputs.                                                                 *)
(***************************************************************************)
RoomName == <<"x", "m", "a", "s">>
Al == <<"a", "l">>
Bo == <<"b", "o">>
Cy == <<"c", "y">>
Pass == <<"p", "a", "s", "s">>
Word == <<"w", "o", "r", "d">>

R1 == RoomIdSeq[1]

\* the key the client derives and exports for a registration
ClientKey(username, password, roomId, keySalt) ==
    exportPublicKey(deriveKeyPairFromPassword(username, password, roomId, keySalt).publicKey)

\* (publicKey, keySalt) of a register request: a derived key with its salt,
\* or a text that is not a key and no salt
KeyAndSalt(username, password, roomId) ==
    {<<ClientKey(username, password, roomId, keySalt), keySalt>> : keySalt \in {"s1"}}
    \cup {<<Temp, "">>}

(***************************************************************************)
(* States in which the specifications below begin.  Room R1 was created by *)
(* Al and the listed participants have registered with derived keys; all   *)
(* of it has been saved and no request is in flight.                       *)
(***************************************************************************)
Registered(username, password, roomId, keySalt) ==
    [username |-> username,
     passwordHash |-> hashPassword(password),
     publicKey |-> ClientKey(username, password, roomId, keySalt),
     keySalt |-> keySalt,
     encryptedAssignment |-> Null]

RoomOf(participants) ==
    [id |-> R1, name |-> RoomName, hostUsername |-> Al,
     hostLoginHash |-> hashPassword(Al \o Pass),
     participants |-> participants, status |-> "open", createdAt |-> 0]

NoOne == << >>
BoAndCy == <<Registered(Bo, Pass, R1, "s1"), Registered(Cy, Pass, R1, "s1")>>

\* the process serves R1 with the given participants
Serving(participants) ==
    /\ rooms = [r \in RoomIds |-> IF r = R1 THEN 1 ELSE 0]
    /\ heap = <<RoomOf(participants)>>
    /\ reqs = [i \in ReqIds |-> Idle]
    /\ saveInProgress = FALSE
    /\ saver = SaverIdle
    /\ file = Json([r \in RoomIds |-> IF r = R1 THEN RoomOf(participants) ELSE NoRoom])
    /\ backups = {}
    /\ loader = "done"
    /\ rateLimitMap = [c \in Clients |-> [k \in 1..(1 + Len(participants)) |-> 0]]
    /\ now = 0
    /\ restarts = 0

SaveSteps == SaveMkdirDone \/ SaveReadDone \/ SaveBackupDone \/ SaveWriteDone

LoadSteps == LoadMkdirDone \/ LoadReadDone

(***************************************************************************)
(* Spec: the life of a room.  Participants register, register again, the   *)
(* host starts the room and participants log in, in any interleaving.      *)
(***************************************************************************)
InitRoom == Serving(NoOne) \/ Serving(BoAndCy)

Identities == {Al, Bo}

Next ==
    \/ SaveSteps
    \/ \E i \in Direct, c \in Clients, u \in Identities :
          \/ \E ks \in KeyAndSalt(u, Pass, R1) : RegisterBegin(i, c, R1, u, Pass, ks[1], ks[2])
          \/ LoginBegin(i, c, R1, u, Pass)
    \/ \E i \in Direct, c \in Clients : StartBegin(i, c, R1, Al, Pass)
    \/ \E i \in ReqIds :
          \/ RegisterHostVerified(i)
          \/ RegisterExistingVerified(i)
          \/ RegisterHashed(i)
          \/ StartVerified(i)
          \/ LoginVerified(i)

Spec == InitRoom /\ [][Next]_vars

(***************************************************************************)
(* SpecRegister: registrations with derived keys, of the host, of          *)
(* participants already in the room and of new ones, around a start.       *)
(***************************************************************************)
NextRegister ==
    \/ SaveSteps
    \/ \E i \in Direct, c \in Clients, u \in {Al, Bo, Cy} :
          RegisterBegin(i, c, R1, u, Pass, ClientKey(u, Pass, R1, "s1"), "s1")
    \/ \E i \in Direct, c \in Clients : StartBegin(i, c, R1, Al, Pass)
    \/ \E i \in ReqIds :
          \/ RegisterHostVerified(i)
          \/ RegisterExistingVerified(i)
          \/ RegisterHashed(i)
          \/ StartVerified(i)

SpecRegister == InitRoom /\ [][NextRegister]_vars

(***************************************************************************)
(* SpecStart: the host registers, with a derived key or with a text that   *)
(* is not a key, and starts the room of Bo and Cy.                         *)
(***************************************************************************)
NextStart ==
    \/ SaveSteps
    \/ \E i \in Direct, c \in Clients :
          \/ \E ks \in KeyAndSalt(Al, Pass, R1) :
                RegisterBegin(i, c, R1, Al, Pass, ks[1], ks[2])
          \/ StartBegin(i, c, R1, Al, Pass)
    \/ \E i \in ReqIds :
          \/ RegisterHostVerified(i)
          \/ RegisterHashed(i)
          \/ StartVerified(i)

SpecStart == Serving(BoAndCy) /\ [][NextStart]_vars

(***************************************************************************)
(* SpecRestart: a process that starts on the data of an earlier run, in    *)
(* which R1 was left Open with two participants, and that is restarted.    *)
(***************************************************************************)
InitOnData ==
    /\ rooms = [r \in RoomIds |-> 0]
    /\ heap = << >>
    /\ reqs = [i \in ReqIds |-> Idle]
    /\ saveInProgress = FALSE
    /\ saver = SaverIdle
    /\ file = Json([r \in RoomIds |-> IF r = R1 THEN RoomOf(BoAndCy) ELSE NoRoom])
    /\ backups = {}
    /\ loader = "mkdir"
    /\ rateLimitMap = [c \in Clients |-> << >>]
    /\ now = 0
    /\ restarts = 0

NextRestart ==
    \/ LoadSteps
    \/ SaveSteps
    \/ Restart
    \/ \E i \in Direct, c \in Clients :
          \/ RegisterBegin(i, c, R1, Al, Pass, ClientKey(Al, Pass, R1, "s1"), "s1")
          \/ StartBegin(i, c, R1, Al, Pass)
    \/ \E i \in ReqIds :
          \/ RegisterHostVerified(i)
          \/ RegisterHashed(i)
          \/ StartVerified(i)

SpecRestart == InitOnData /\ [][NextRestart]_vars

(***************************************************************************)
(* SpecE2E: the browser client.  registerUser sends init-register, derives *)
(* the keypair from what the user typed and the salt it got, and sends     *)
(* register; loginAndDecrypt sends login and decrypts what it gets.        *)
(***************************************************************************)
Di == <<"d", "i">>
DiSpace == <<"d", "i", " ">>

\* init-register requests of registerUser(roomId, username, password) that
\* returned keySalt, and the register requests that continue them
FlowInits(clientId, roomId, username, password, keySalt) ==
    {j \in ReqIds : /\ reqs[j].op = "initRegister" /\ reqs[j].pc = "done"
                    /\ reqs[j].client = clientId /\ reqs[j].room = roomId
                    /\ reqs[j].args = [username |-> username, password |-> password]
                    /\ reqs[j].resp.status = 200
                    /\ reqs[j].resp.keySalt = keySalt}

FlowRegisters(clientId, roomId, username, password, keySalt) ==
    {j \in ReqIds : /\ reqs[j].op = "register"
                    /\ reqs[j].client = clientId /\ reqs[j].room = roomId
                    /\ reqs[j].args =
                          [username |-> username, password |-> password,
                           publicKey |-> ClientKey(username, password, roomId, keySalt),
                           keySalt |-> keySalt]}

\* registerUser, step 2 and 3: the flow whose init-register returned keySalt
\* derives its key and sends register
registerUser(i, clientId, roomId, username, password, keySalt) ==
    /\ Cardinality(FlowRegisters(clientId, roomId, username, password, keySalt))
          < Cardinality(FlowInits(clientId, roomId, username, password, keySalt))
    /\ RegisterBegin(i, clientId, roomId, username, password,
                     ClientKey(username, password, roomId, keySalt), keySalt)

\* loginAndDecrypt once login request i has answered: the assignment, or
\* the error that it throws
loginAndDecrypt(i) ==
    LET q == reqs[i]
    IN  IF q.resp.status # 200
        THEN [thrown |-> TRUE, error |-> q.resp.error]
        ELSE LET keypair == deriveKeyPairFromPassword(q.args.username, q.args.password,
                                                      q.room, q.resp.keySalt)
                 assignment == decryptWithPrivateKey(q.resp.encryptedAssignment,
                                                     keypair.privateKey)
             IN  IF assignment = DecryptFailure
                 THEN [thrown |-> TRUE, error |-> "Failed to decrypt. Check your password."]
                 ELSE [thrown |-> FALSE, username |-> q.args.username,
                       assignment |-> assignment]

Typed == {Al, DiSpace}

NextE2E ==
    \/ SaveSteps
    \/ \E i \in ReqIds, c \in Clients, u \in Typed :
          \/ InitRegisterBegin(i, c, R1, u, Pass)
          \/ \E keySalt \in KeySalts : registerUser(i, c, R1, u, Pass, keySalt)
          \/ LoginBegin(i, c, R1, u, Pass)
    \/ \E i \in ReqIds, c \in Clients : StartBegin(i, c, R1, Al, Pass)
    \/ \E i \in ReqIds :
          \/ InitRegisterVerified(i)
          \/ RegisterHostVerified(i)
          \/ RegisterExistingVerified(i)
          \/ RegisterHashed(i)
          \/ StartVerified(i)
          \/ LoginVerified(i)

SpecE2E == Serving(BoAndCy) /\ [][NextE2E]_vars

(***************************************************************************)
(* SpecHost: the requests that carry host credentials.                     *)
(***************************************************************************)
\* the pair given at creation, a pair with the same concatenation, and a
\* pair with a wrong password
HostPairs == {<<Al, Pass>>, <<<<"a">>, <<"l">> \o Pass>>, <<Al, Word>>}

NextHost ==
    \/ SaveSteps
    \/ \E i \in Direct, c \in Clients :
          \/ RoomInfo(i, c, R1)
          \/ \E h \in HostPairs :
                \/ StartBegin(i, c, R1, h[1], h[2])
                \/ HostAuthBegin(i, c, R1, h[1], h[2])
                \/ \E u \in {Al, Bo} : RemoveParticipant(i, c, R1, h[1], h[2], u)
    \/ \E i \in ReqIds :
          \/ StartVerified(i)
          \/ HostAuthVerified(i)

SpecHost == Serving(BoAndCy) /\ [][NextHost]_vars

(***************************************************************************)
(* SpecStarted: registrations and logins that arrive once R1 is Started.   *)
(***************************************************************************)
\* R1 after the host has started it with Bo and Cy drawing each other; the
\* client has made the given number of rate-limited requests so far
ServingStarted(admitted) ==
    LET room == StartedRoom(RoomOf(BoAndCy),
                    <<[username |-> Bo, giftRecipient |-> Cy],
                      [username |-> Cy, giftRecipient |-> Bo]>>)
    IN
    /\ rooms = [r \in RoomIds |-> IF r = R1 THEN 1 ELSE 0]
    /\ heap = <<room>>
    /\ reqs = [i \in ReqIds |-> Idle]
    /\ saveInProgress = FALSE
    /\ saver = SaverIdle
    /\ file = Json([r \in RoomIds |-> IF r = R1 THEN room ELSE NoRoom])
    /\ backups = {}
    /\ loader = "done"
    /\ rateLimitMap = [c \in Clients |-> [k \in 1..admitted |-> 0]]
    /\ now = 0
    /\ restarts = 0

NextStarted ==
    \/ \E i \in Direct, c \in Clients, u \in {Bo, Di, << >>}, p \in {Pass, Word} :
          \/ \E keySalt \in KeySalts :
                RegisterBegin(i, c, R1, u, p, ClientKey(u, p, R1, keySalt), keySalt)
          \/ LoginBegin(i, c, R1, u, p)
    \/ \E i \in ReqIds : LoginVerified(i)

SpecStarted == ServingStarted(MAX_REQUESTS_PER_WINDOW - 1) /\ [][NextStarted]_vars

(***************************************************************************)
(* SpecLogin: logins at R1, Open or Started, around a start by the host.   *)
(***************************************************************************)
NextLogin ==
    \/ SaveSteps
    \/ \E i \in Direct, c \in Clients :
          \/ \E u \in {Bo, Di, << >>}, p \in {Pass, Word} : LoginBegin(i, c, R1, u, p)
          \/ StartBegin(i, c, R1, Al, Pass)
    \/ \E i \in ReqIds :
          \/ LoginVerified(i)
          \/ StartVerified(i)

SpecLogin ==
    /\ Serving(BoAndCy) \/ ServingStarted(3)
    /\ [][NextLogin]_vars

(***************************************************************************)
(* SpecGenerator: generateSecretSantaAssignments on every list of 2 to     *)
(* MaxParticipants distinct identities; SpecGeneratorFair runs the code to *)
(* its end.                                                                *)
(***************************************************************************)
IdentityLists ==
    UNION {{f \in [1..n -> {Al, Bo, Cy, Di}] : \A a, b \in 1..n : f[a] = f[b] => a = b} :
              n \in 2..MaxParticipants}

InitGenerator ==
    \E identities \in IdentityLists :
        Serving([k \in DOMAIN identities |-> Registered(identities[k], Pass, R1, "s1")])

NextGenerator == GenerateCall(1, R1) \/ GenerateAttempt(1)

SpecGenerator == InitGenerator /\ [][NextGenerator]_vars

SpecGeneratorFair == SpecGenerator /\ WF_vars(NextGenerator)

(***************************************************************************)
(* SpecReregister: the host and Bo register again at the room of Bo and    *)
(* Cy, with the right or a wrong secret, a new key, and a salt or none.    *)
(***************************************************************************)
NextReregister ==
    \/ SaveSteps
    \/ \E i \in Direct, c \in Clients :
          \/ RegisterBegin(i, c, R1, Al, Pass, ClientKey(Al, Pass, R1, "s2"), "s2")
          \/ \E p \in {Pass, Word}, keySalt \in {"s2", ""} :
                RegisterBegin(i, c, R1, Bo, p, ClientKey(Bo, p, R1, "s2"), keySalt)
    \/ \E i \in ReqIds :
          \/ RegisterHostVerified(i)
          \/ RegisterExistingVerified(i)
          \/ RegisterHashed(i)

SpecReregister == Serving(BoAndCy) /\ [][NextReregister]_vars

(***************************************************************************)
(* SpecAuth: every request that carries credentials, sent with a wrong     *)
(* secret, among a registration and a start with the right ones.           *)
(***************************************************************************)
NextAuth ==
    \/ SaveSteps
    \/ \E i \in Direct, c \in Clients :
          \/ \E p \in {Pass, Word} :
                RegisterBegin(i, c, R1, Bo, p, ClientKey(Bo, p, R1, "s2"), "s2")
          \/ InitRegisterBegin(i, c, R1, Bo, Word)
          \/ LoginBegin(i, c, R1, Bo, Word)
          \/ HostAuthBegin(i, c, R1, Al, Word)
          \/ RemoveParticipant(i, c, R1, Al, Word, Bo)
          \/ \E h \in HostPairs : StartBegin(i, c, R1, h[1], h[2])
    \/ \E i \in ReqIds :
          \/ InitRegisterVerified(i)
          \/ RegisterHostVerified(i)
          \/ RegisterExistingVerified(i)
          \/ HostAuthVerified(i)
          \/ StartVerified(i)
          \/ LoginVerified(i)

SpecAuth == Serving(BoAndCy) /\ [][NextAuth]_vars

(***************************************************************************)
(* SpecRemove: removals asked of R1, Open, in which the host has or has   *)
(* not registered as a participant.                                        *)
(***************************************************************************)
AlAndBo == <<Registered(Al, Pass, R1, "s1"), Registered(Bo, Pass, R1, "s1")>>

NextRemove ==
    \E i \in Direct, c \in Clients, h \in HostPairs, u \in {Al, Bo} :
        RemoveParticipant(i, c, R1, h[1], h[2], u)

SpecRemove ==
    /\ Serving(AlAndBo) \/ Serving(BoAndCy)
    /\ [][NextRemove]_vars

(***************************************************************************)
(* SpecReadOnly: the four requests that only read, at R1 Open or Started,  *)
(* around a start by the host.                                             *)
(***************************************************************************)
NextReadOnly ==
    \/ SaveSteps
    \/ \E i \in Direct, c \in Clients :
          \/ RoomInfo(i, c, R1)
          \/ \E u \in {Bo, Di} : InitRegisterBegin(i, c, R1, u, Pass)
          \/ LoginBegin(i, c, R1, Bo, Pass)
          \/ \E p \in {Pass, Word} : HostAuthBegin(i, c, R1, Al, p)
          \/ StartBegin(i, c, R1, Al, Pass)
    \/ \E i \in ReqIds :
          \/ InitRegisterVerified(i)
          \/ LoginVerified(i)
          \/ HostAuthVerified(i)
          \/ StartVerified(i)

SpecReadOnly ==
    /\ Serving(BoAndCy) \/ ServingStarted(3)
    /\ [][NextReadOnly]_vars

(***************************************************************************)
(* SpecSecrets: every kind of request at the room of Bo and Cy, the ones   *)
(* in Bo's name with Bo's secret or with another.                          *)
(***************************************************************************)
NextSecrets ==
    \/ SaveSteps
    \/ \E i \in Direct, c \in Clients :
          \/ RoomInfo(i, c, R1)
          \/ HostAuthBegin(i, c, R1, Al, Pass)
          \/ RemoveParticipant(i, c, R1, Al, Pass, Cy)
          \/ StartBegin(i, c, R1, Al, Pass)
          \/ InitRegisterBegin(i, c, R1, Di, Pass)
          \/ \E p \in {Pass, Word} :
                \/ InitRegisterBegin(i, c, R1, Bo, p)
                \/ RegisterBegin(i, c, R1, Bo, p, ClientKey(Bo, p, R1, "s2"), "s2")
                \/ LoginBegin(i, c, R1, Bo, p)
    \/ \E i \in ReqIds :
          \/ HostAuthVerified(i)
          \/ StartVerified(i)
          \/ InitRegisterVerified(i)
          \/ RegisterHostVerified(i)
          \/ RegisterExistingVerified(i)
          \/ LoginVerified(i)

SpecSecrets == Serving(BoAndCy) /\ [][NextSecrets]_vars

(***************************************************************************)
(* SpecSaltRace: registrations of one new identity, Di, each proposing a   *)
(* salt of its own, at the room of Bo and Cy.                              *)
(***************************************************************************)
NextSaltRace ==
    \/ SaveSteps
    \/ \E i \in Direct, c \in Clients, keySalt \in KeySalts :
          RegisterBegin(i, c, R1, Di, Pass, ClientKey(Di, Pass, R1, keySalt), keySalt)
    \/ \E i \in ReqIds :
          \/ RegisterHostVerified(i)
          \/ RegisterExistingVerified(i)
          \/ RegisterHashed(i)

SpecSaltRace == Serving(BoAndCy) /\ [][NextSaltRace]_vars

(***************************************************************************)
(* SpecCrash: the host registers at and starts the room of Bo and Cy; the  *)
(* write of a backup may fail, and the process may be killed during a      *)
(* flush and started again.                                                *)
(***************************************************************************)
NextCrash ==
    \/ LoadSteps
    \/ SaveSteps
    \/ SaveBackupFailed
    \/ Crash
    \/ \E i \in Direct, c \in Clients :
          \/ RegisterBegin(i, c, R1, Al, Pass, ClientKey(Al, Pass, R1, "s1"), "s1")
          \/ StartBegin(i, c, R1, Al, Pass)
    \/ \E i \in ReqIds :
          \/ RegisterHostVerified(i)
          \/ RegisterHashed(i)
          \/ StartVerified(i)

SpecCrash == Serving(BoAndCy) /\ [][NextCrash]_vars

(***************************************************************************)
(* SpecHydrate: a process that starts on the data of an earlier run, in    *)
(* which R1 was left Open with two participants, and serves requests from  *)
(* the moment it listens, while loadData is still running.                 *)
(***************************************************************************)
\* the rooms in the file on which InitOnData starts the process
DurableAtStart == {R1}

NextHydrate ==
    \/ LoadSteps
    \/ SaveSteps
    \/ \E i \in Direct, c \in Clients :
          \/ CreateRoomBegin(i, c, RoomName, Al, Pass)
          \/ RoomInfo(i, c, R1)
          \/ RegisterBegin(i, c, R1, Al, Pass, ClientKey(Al, Pass, R1, "s1"), "s1")
    \/ \E i \in ReqIds :
          \/ CreateRoomHashed(i)
          \/ RegisterHostVerified(i)
          \/ RegisterHashed(i)

SpecHydrate == InitOnData /\ [][NextHydrate]_vars

(***************************************************************************)
(* SpecColdStart: a process that starts with no data file, or with one     *)
(* that does not parse, and gets requests to create a room once loadData   *)
(* has completed.                                                          *)
(***************************************************************************)
InitNoData ==
    /\ rooms = [r \in RoomIds |-> 0]
    /\ heap = << >>
    /\ reqs = [i \in ReqIds |-> Idle]
    /\ saveInProgress = FALSE
    /\ saver = SaverIdle
    /\ file \in {Missing, Partial}
    /\ backups = {}
    /\ loader = "mkdir"
    /\ rateLimitMap = [c \in Clients |-> << >>]
    /\ now = 0
    /\ restarts = 0

NextColdStart ==
    \/ LoadSteps
    \/ SaveSteps
    \/ /\ loader = "done"
       /\ \E i \in Direct, c \in Clients, name \in {RoomName, << >>}, p \in {Pass, <<"p">>} :
             CreateRoomBegin(i, c, name, Al, p)
    \/ \E i \in ReqIds : CreateRoomHashed(i)

SpecColdStart == InitNoData /\ [][NextColdStart]_vars

(***************************************************************************)
(* SpecWriteFail: a room is created, the host registers at and starts the  *)
(* room of Bo and Cy, and the write of a flush may fail.                   *)
(***************************************************************************)
NextWriteFail ==
    \/ SaveSteps
    \/ SaveWriteFailed
    \/ \E i \in Direct, c \in Clients :
          \/ CreateRoomBegin(i, c, RoomName, Al, Pass)
          \/ RegisterBegin(i, c, R1, Al, Pass, ClientKey(Al, Pass, R1, "s1"), "s1")
          \/ StartBegin(i, c, R1, Al, Pass)
    \/ \E i \in ReqIds :
          \/ CreateRoomHashed(i)
          \/ RegisterHostVerified(i)
          \/ RegisterHashed(i)
          \/ StartVerified(i)

SpecWriteFail == Serving(BoAndCy) /\ [][NextWriteFail]_vars

(***************************************************************************)
(* SpecInvalid: creations and registrations with names, secrets and keys   *)
(* that pass or fail validation, at the room of Bo and Cy.                 *)
(***************************************************************************)
\* a name of one character once sanitized, a secret of one character, a
\* room name of spaces
ShortName == <<"d", "&">>
ShortSecret == <<"p">>
BlankName == <<" ">>

NextInvalid ==
    \/ SaveSteps
    \/ \E i \in Direct, c \in Clients :
          \/ \E name \in {RoomName, BlankName}, p \in {Pass, ShortSecret} :
                CreateRoomBegin(i, c, name, Al, p)
          \/ \E u \in {Di, ShortName} : InitRegisterBegin(i, c, R1, u, Pass)
          \/ InitRegisterBegin(i, c, R1, Di, ShortSecret)
          \/ \E u \in {Di, ShortName}, publicKey \in {ClientKey(Di, Pass, R1, "s1"), Undefined} :
                RegisterBegin(i, c, R1, u, Pass, publicKey, "s1")
          \/ RegisterBegin(i, c, R1, Di, ShortSecret, ClientKey(Di, ShortSecret, R1, "s1"), "s1")
    \/ \E i \in ReqIds :
          \/ CreateRoomHashed(i)
          \/ RegisterHostVerified(i)
          \/ RegisterExistingVerified(i)
          \/ RegisterHashed(i)

SpecInvalid == Serving(BoAndCy) /\ [][NextInvalid]_vars

(***************************************************************************)
(* SpecDerive: calls of deriveKeyPairFromPassword made one after another   *)
(* by a client, on names, secrets, rooms and salts that repeat or differ.  *)
(***************************************************************************)
\* a call whose generator is one instance shared by the calls: what it
\* returns moves with the calls made before
DeriveCallSharedPrng(i, username, password, roomId, keySalt) ==
    LET q == NewReq("deriveKeyPairFromPassword", "ip1", roomId,
                    [username |-> username, password |-> password, keySalt |-> keySalt])
        before == Cardinality({j \in ReqIds : reqs[j].pc = "done"})
    IN
    /\ Arrives(i)
    /\ reqs' = [reqs EXCEPT ![i] =
          Done(q, [keyPair |-> deriveKeyPairFromPassword(username, password, roomId,
                                                         <<keySalt, before>>)])]
    /\ UNCHANGED <<rooms, heap, saveInProgress, saver, file, backups, loader,
                   rateLimitMap, now, restarts>>

\* one call: PBKDF2 of the seed under the salt, a generator created for the
\* call and fed with that key material, and the RSA keypair drawn from it
DeriveCall(i, username, password, roomId, keySalt) ==
    LET q == NewReq("deriveKeyPairFromPassword", "ip1", roomId,
                    [username |-> username, password |-> password, keySalt |-> keySalt])
    IN
    /\ Arrives(i)
    /\ reqs' = [reqs EXCEPT ![i] =
          Done(q, [keyPair |-> deriveKeyPairFromPassword(username, password, roomId,
                                                         keySalt)])]
    /\ UNCHANGED <<rooms, heap, saveInProgress, saver, file, backups, loader,
                   rateLimitMap, now, restarts>>

NextDerive ==
    \E i \in Direct, u \in {Bo, Di}, p \in {Pass, Word}, r \in {R1, RoomIdSeq[2]},
       keySalt \in KeySalts :
        DeriveCall(i, u, p, r, keySalt)

SpecDerive == Serving(BoAndCy) /\ [][NextDerive]_vars

(***************************************************************************)
(* SpecTwoRooms: two rooms in one registry.  R1 is the room of Bo and Cy;  *)
(* R2 has the same host and either nobody or three participants, one of    *)
(* them a Bo with another secret.  Registrations and starts are addressed  *)
(* to R2 while R1 is read, logged into and asked to remove Cy.             *)
(***************************************************************************)
R2 == RoomIdSeq[2]

OtherRoom(participants) ==
    [RoomOf(participants) EXCEPT !.id = R2, !.name = <<"o", "f", "f", "i", "c", "e">>]

BoCyAndDi ==
    <<Registered(Bo, Word, R2, "s2"), Registered(Cy, Pass, R2, "s1"),
      Registered(Di, Pass, R2, "s1")>>

ServingTwo(participants) ==
    /\ rooms = [r \in RoomIds |-> IF r = R1 THEN 1 ELSE IF r = R2 THEN 2 ELSE 0]
    /\ heap = <<RoomOf(BoAndCy), OtherRoom(participants)>>
    /\ reqs = [i \in ReqIds |-> Idle]
    /\ saveInProgress = FALSE
    /\ saver = SaverIdle
    /\ file = Json([r \in RoomIds |-> IF r = R1 THEN RoomOf(BoAndCy)
                                      ELSE IF r = R2 THEN OtherRoom(participants)
                                      ELSE NoRoom])
    /\ backups = {}
    /\ loader = "done"
    /\ rateLimitMap = [c \in Clients |-> [k \in 1..(4 + Len(participants)) |-> 0]]
    /\ now = 0
    /\ restarts = 0

NextTwoRooms ==
    \/ SaveSteps
    \/ \E i \in Direct, c \in Clients :
          \/ RoomInfo(i, c, R1)
          \/ InitRegisterBegin(i, c, R1, Bo, Pass)
          \/ LoginBegin(i, c, R1, Bo, Pass)
          \/ RemoveParticipant(i, c, R1, Al, Pass, Cy)
          \/ RegisterBegin(i, c, R2, Di, Pass, ClientKey(Di, Pass, R2, "s2"), "s2")
          \/ StartBegin(i, c, R2, Al, Pass)
    \/ \E i \in ReqIds :
          \/ InitRegisterVerified(i)
          \/ LoginVerified(i)
          \/ RegisterHostVerified(i)
          \/ RegisterExistingVerified(i)
          \/ RegisterHashed(i)
          \/ StartVerified(i)

SpecTwoRooms ==
    /\ ServingTwo(NoOne) \/ ServingTwo(BoCyAndDi)
    /\ [][NextTwoRooms]_vars

(***************************************************************************)
(* SpecLimiter: calls of isRateLimited by two clients at the instants 0,   *)
(* RATE_LIMIT_WINDOW - 1 and RATE_LIMIT_WINDOW of the clock, enough of     *)
(* them to exhaust a window.  Each call is logged with the clock it read   *)
(* and the value it returned.                                              *)
(***************************************************************************)
LimiterClients == {"ip1", "ip2"}

LimiterCalls == 1..(MAX_REQUESTS_PER_WINDOW + MaxReqs)

\* the values of Date.now() after the first
Instants == {RATE_LIMIT_WINDOW - 1, RATE_LIMIT_WINDOW}

CallsOf(clientId) ==
    {j \in LimiterCalls : reqs[j].op = "isRateLimited" /\ reqs[j].client = clientId}

IsRateLimitedCall(i, clientId) ==
    /\ Arrives(i)
    /\ reqs' = [reqs EXCEPT ![i] =
          [op |-> "isRateLimited", pc |-> "done", client |-> clientId,
           args |-> [now |-> now],
           resp |-> [limited |-> isRateLimited(clientId)]]]
    /\ rateLimitMap' = RateLimitMapAfter(clientId)
    /\ UNCHANGED <<rooms, heap, saveInProgress, saver, file, backups, loader,
                   now, restarts>>

\* the clock moves on between two calls
ClockAdvances ==
    /\ \E t \in Instants : t > now /\ now' = t
    /\ UNCHANGED <<rooms, heap, reqs, saveInProgress, saver, file, backups, loader,
                   rateLimitMap, restarts>>

InitLimiter ==
    /\ rooms = [r \in RoomIds |-> 0]
    /\ heap = << >>
    /\ reqs = [i \in LimiterCalls |-> Idle]
    /\ saveInProgress = FALSE
    /\ saver = SaverIdle
    /\ file = Missing
    /\ backups = {}
    /\ loader = "done"
    /\ rateLimitMap = [c \in LimiterClients |-> << >>]
    /\ now = 0
    /\ restarts = 0

NextLimiter ==
    \/ ClockAdvances
    \/ \E i \in LimiterCalls : IsRateLimitedCall(i, "ip1")
    \/ \E i \in LimiterCalls :
          /\ Cardinality(CallsOf("ip2")) < MaxOtherCalls
          /\ IsRateLimitedCall(i, "ip2")

SpecLimiter == InitLimiter /\ [][NextLimiter]_vars

(***************************************************************************)
(* SpecBoot: a process from its start on an empty data directory.          *)
(***************************************************************************)
NextBoot ==
    \/ LoadSteps
    \/ SaveSteps
    \/ \E i \in Direct, c \in Clients :
          \/ CreateRoomBegin(i, c, RoomName, Al, Pass)
          \/ \E u \in {Al, Bo} : RegisterBegin(i, c, R1, u, Pass, ClientKey(u, Pass, R1, "s1"), "s1")
          \/ StartBegin(i, c, R1, Al, Pass)
    \/ \E i \in ReqIds :
          \/ CreateRoomHashed(i)
          \/ RegisterHostVerified(i)
          \/ RegisterExistingVerified(i)
          \/ RegisterHashed(i)
          \/ StartVerified(i)

SpecBoot == Init /\ [][NextBoot]_vars

(***************************************************************************)
(* Views of the state used by the properties.                              *)
(***************************************************************************)
Exists(r) == Get(r) # NoRoom

Participants(r) == Get(r).participants

Count(participants, username) ==
    Cardinality({k \in DOMAIN participants : participants[k].username = username})

AllNull(participants) ==
    \A k \in DOMAIN participants : participants[k].encryptedAssignment = Null

NoneNull(participants) ==
    \A k \in DOMAIN participants : participants[k].encryptedAssignment # Null

\* request i gets its response in this step
Responds(i) == reqs[i].pc # "done" /\ reqs'[i].pc = "done"

\* C1: in every reachable state a Started room has a ciphertext on every
\* participant and an Open room has none on any participant.
C1_StatusMatchesCiphertext ==
    \A r \in RoomIds :
        Exists(r) =>
            /\ Get(r).status = "started" => NoneNull(Participants(r))
            /\ Get(r).status = "open" => AllNull(Participants(r))

\* C2: once a room is Started its participant sequence never changes: no
\* participant is added or removed and no field of a participant changes.
C2_FrozenAfterStart ==
    [][\A r \in RoomIds :
          (Exists(r) /\ Get(r).status = "started") =>
              Get(r)'.participants = Get(r).participants]_vars

\* C3: in every reachable state no room holds two participants with the
\* same identity.
C3_UniqueIdentities ==
    \A r \in RoomIds :
        Exists(r) =>
            \A j, k \in DOMAIN Participants(r) :
                j # k => Participants(r)[j].username # Participants(r)[k].username

RegisterCalls(r) == {i \in ReqIds : reqs[i].op = "register" /\ reqs[i].room = r}

Identity(i) == validateUsername(reqs[i].args.username)

Succeeded(i) == reqs[i].pc = "done" /\ reqs[i].resp.status = 200

\* C4: register calls with pairwise distinct identities leave exactly one
\* entry per identity once they have completed, whatever their
\* interleaving, and no step loses or reorders an entry of the list.
C4_DistinctRegistrations ==
    /\ [](\A r \in RoomIds :
            (/\ Exists(r)
             /\ \A i, j \in RegisterCalls(r) : i # j => Identity(i) # Identity(j)
             /\ \A i \in RegisterCalls(r) : reqs[i].pc = "done")
            => /\ \A i \in RegisterCalls(r) :
                     Succeeded(i) => Count(Participants(r), Identity(i)) = 1
               /\ \A k \in DOMAIN Participants(r) :
                     Count(Participants(r), Participants(r)[k].username) = 1)
    /\ [][\A r \in RoomIds :
            Exists(r) =>
               /\ Exists(r)'
               /\ Len(Participants(r)') >= Len(Participants(r))
               /\ SubSeq(Usernames(Participants(r)'), 1, Len(Participants(r)))
                     = Usernames(Participants(r))]_vars

\* two registrations of different new identities that overlapped: the one
\* that arrived first answered after the other had been pushed
C4_Witness ==
    \E i, j \in RegisterCalls(R1) :
        /\ i < j
        /\ Identity(i) # Identity(j)
        /\ Succeeded(i) /\ Succeeded(j)
        /\ ~reqs[i].resp.alreadyRegistered /\ ~reqs[j].resp.alreadyRegistered
        /\ Identity(j) \in Range(reqs[i].resp.roomDetails.participants)
        /\ \A k \in RegisterCalls(R1) : k \in {i, j}
        /\ Count(Participants(R1), Identity(i)) = 1
        /\ Count(Participants(R1), Identity(j)) = 1

\* C6: after a successful start the ciphertexts encode a derangement: some
\* bijection f without fixed point on the identities of the room makes every
\* participant's ciphertext the encryption of f(identity) under the
\* participant's stored public key.
C6_CiphertextsEncodeDerangement ==
    \A r \in RoomIds :
        (Exists(r) /\ Get(r).status = "started") =>
            LET ps == Participants(r)
                ids == Range(Usernames(ps))
            IN  \E f \in [ids -> ids] :
                   /\ \A a, b \in ids : f[a] = f[b] => a = b
                   /\ \A a \in ids : f[a] # a
                   /\ \A k \in DOMAIN ps :
                         /\ IsPem(ps[k].publicKey)
                         /\ ps[k].encryptedAssignment # Null
                         /\ ps[k].encryptedAssignment
                               = Encrypt(f[ps[k].username], ps[k].publicKey)

\* start has stored the assignments of request i, which is saving or has
\* answered with success
StartSucceeded(i) ==
    /\ reqs[i].op = "start"
    /\ (reqs[i].pc = "save" \/ Succeeded(i))

\* the room turns Started in this step
Starts(r) == Exists(r) /\ Get(r).status = "open" /\ Get(r)'.status = "started"

\* C8: of the start requests on a room at most one generates assignments
\* and succeeds, a start that resumes on a Started room fails with the
\* state conflict, and no participant's ciphertext is written more than
\* once, neither by a later step nor within the step that starts the room.
C8_StartOnce ==
    /\ [](\A r \in RoomIds :
            Cardinality({i \in ReqIds : StartSucceeded(i) /\ reqs[i].room = r}) <= 1)
    /\ [][/\ \A i \in ReqIds :
               (/\ reqs[i].op = "start" /\ reqs[i].pc = "verify" /\ Responds(i)
                /\ heap[reqs[i].ref].status = "started")
               => reqs'[i].resp = Error(400, "Room has already started")
          /\ \A r \in RoomIds :
               Exists(r) =>
                  /\ \A k \in DOMAIN Participants(r) :
                        Participants(r)[k].encryptedAssignment # Null =>
                           Participants(r)'[k].encryptedAssignment
                              = Participants(r)[k].encryptedAssignment
                  /\ Starts(r) =>
                        \A k \in DOMAIN Participants(r) :
                           AssignmentWrites(Participants(r), k) <= 1]_vars

\* C9: a start that fails to encrypt for some participant answers with an
\* error and commits nothing: the room objects are as before, the room is
\* Open and no participant holds a ciphertext, so start can be tried again.
C9_EncryptFailureCommitsNothing ==
    [][\A i \in ReqIds :
          (/\ reqs[i].op = "start" /\ Responds(i)
           /\ reqs'[i].resp.status = 500
           /\ reqs'[i].resp.error = "Failed to encrypt assignment for")
          => /\ heap' = heap /\ rooms' = rooms
             /\ heap'[reqs[i].ref].status = "open"
             /\ AllNull(heap'[reqs[i].ref].participants)]_vars

\* a start has failed on a key that does not parse, and the room is Open
\* without any ciphertext
C9_Witness ==
    \E i \in ReqIds :
        /\ reqs[i].op = "start" /\ reqs[i].pc = "done"
        /\ reqs[i].resp.status = 500
        /\ reqs[i].resp.error = "Failed to encrypt assignment for"
        /\ \E k \in DOMAIN Participants(R1) : ~IsPem(Participants(R1)[k].publicKey)
        /\ Get(R1).status = "open"
        /\ AllNull(Participants(R1))

\* C5: a room is Open when created, its status only ever changes from
\* Open to Started, and a room whose start has succeeded is never Open in
\* the registry again, whatever process starts and flushes happen.
C5_StartedNeverReverts ==
    /\ [](\A i \in ReqIds :
            (reqs[i].op = "start" /\ Succeeded(i)) =>
               ~(Exists(reqs[i].room) /\ Get(reqs[i].room).status = "open"))
    /\ [][\A r \in RoomIds :
            /\ (~Exists(r) /\ Exists(r)' /\ loader = "done") => Get(r)'.status = "open"
            /\ (Exists(r) /\ Exists(r)' /\ Get(r).status = "started")
                  => Get(r)'.status = "started"]_vars

\* C7: a participant who registered through registerUser and logs in
\* through loginAndDecrypt once the room is Started, with the name and the
\* secret typed at registration, gets the identity of another participant:
\* no error, no decryption failure, not the participant's own identity.
C7_FlowDecryptsAssignment ==
    [][\A i \in ReqIds :
          (/\ Responds(i) /\ reqs'[i].op = "login"
           /\ Exists(reqs'[i].room)
           /\ Get(reqs'[i].room).status = "started"
           /\ \E j \in ReqIds :
                 /\ reqs[j].op = "register" /\ Succeeded(j)
                 /\ reqs[j].room = reqs'[i].room
                 /\ reqs[j].args.username = reqs'[i].args.username
                 /\ reqs[j].args.password = reqs'[i].args.password
                 /\ reqs[j].args.publicKey =
                       ClientKey(reqs[j].args.username, reqs[j].args.password,
                                 reqs[j].room, reqs[j].args.keySalt)
                 /\ Participants(reqs[j].room)[FindParticipant(Participants(reqs[j].room),
                        Identity(j))].encryptedAssignment # Null)
          => LET result == loginAndDecrypt(i)'
             IN  /\ ~result.thrown
                 /\ result.assignment \in Range(Usernames(Participants(reqs'[i].room)))
                 /\ result.assignment # Identity(i)']_vars

\* the secret given when R1 was created
HostSecret == Pass

\* C10: start changes a room only when the supplied hostIdentity is the
\* room's and the supplied hostSecret is the one given at creation; every
\* other pair gets the authorization error and leaves the room unchanged.
C10_OnlyTheHostStarts ==
    [][\A i \in ReqIds :
          (reqs[i].op = "start" /\ reqs[i].pc = "verify" /\ reqs'[i].pc # "verify") =>
             IF /\ reqs[i].args.hostUsername = heap[reqs[i].ref].hostUsername
                /\ reqs[i].args.hostPassword = HostSecret
             THEN TRUE
             ELSE /\ reqs'[i].pc = "done"
                  /\ reqs'[i].resp = Error(401, "Invalid host credentials")
                  /\ heap' = heap /\ rooms' = rooms]_vars

\* C11: a start that resumes on an Open room of fewer than 2 participants
\* answers with the validation error (the authorization error if the host
\* credentials do not verify) and changes no room: the status stays Open
\* and the participants are as before.
C11_TooFewParticipants ==
    [][\A i \in ReqIds :
          (/\ reqs[i].op = "start" /\ reqs[i].pc = "verify" /\ reqs'[i].pc # "verify"
           /\ heap[reqs[i].ref].status = "open"
           /\ Len(heap[reqs[i].ref].participants) < 2)
          => /\ reqs'[i].pc = "done"
             /\ reqs'[i].resp =
                   IF verifyPassword(reqs[i].args.hostUsername \o reqs[i].args.hostPassword,
                                     heap[reqs[i].ref].hostLoginHash)
                   THEN Error(400, "At least 2 participants are required")
                   ELSE Error(401, "Invalid host credentials")
             /\ heap' = heap /\ rooms' = rooms]_vars

\* the host has started a room of one participant and got the validation
\* error; the room is Open with that participant
C11_Witness ==
    \E i \in ReqIds :
        /\ reqs[i].op = "start" /\ reqs[i].pc = "done"
        /\ reqs[i].resp = Error(400, "At least 2 participants are required")
        /\ Len(Participants(R1)) = 1
        /\ Get(R1).status = "open"
        /\ AllNull(Participants(R1))

\* register request i arrives in this step
RegisterArrives(i) == reqs[i].pc = "idle" /\ reqs'[i].op = "register"

\* C12: a register that arrives at a Started room is answered at once with
\* an error and changes no room; the error is the state conflict, except
\* that a request the rate limiter turns away gets 429 and a request with
\* an empty identity or secret gets the validation error.
C12_RegisterClosed ==
    [][\A i \in ReqIds :
          (/\ RegisterArrives(i)
           /\ Exists(reqs'[i].room) /\ Get(reqs'[i].room).status = "started")
          => /\ reqs'[i].pc = "done"
             /\ heap' = heap /\ rooms' = rooms
             /\ reqs'[i].resp =
                   IF isRateLimited(reqs'[i].client)
                   THEN Error(429, "Too many requests. Please wait a minute.")
                   ELSE IF reqs'[i].args.username = << >> \/ reqs'[i].args.password = << >>
                   THEN Error(400, "Username and password are required")
                   ELSE Error(400, "Room has already started. Registration is closed.")]_vars

\* a participant's registration with a new key was refused by the Started
\* room, which still holds the key and the ciphertext it had
C12_Witness ==
    \E i \in ReqIds :
        /\ reqs[i].op = "register" /\ reqs[i].pc = "done"
        /\ reqs[i].args.username = Bo /\ reqs[i].args.password = Pass
        /\ reqs[i].args.publicKey = ClientKey(Bo, Pass, R1, "s2")
        /\ reqs[i].resp = Error(400, "Room has already started. Registration is closed.")
        /\ Get(R1).status = "started"
        /\ Participants(R1)[1].publicKey = ClientKey(Bo, Pass, R1, "s1")
        /\ NoneNull(Participants(R1))

\* C12 as stated: every register the rate limiter admits at a Started room
\* fails with the state conflict, whatever identity and secret it carries.
C12_AlwaysStateConflict ==
    [][\A i \in ReqIds :
          (/\ RegisterArrives(i)
           /\ ~isRateLimited(reqs'[i].client)
           /\ Exists(reqs'[i].room) /\ Get(reqs'[i].room).status = "started")
          => reqs'[i].resp =
                Error(400, "Room has already started. Registration is closed.")]_vars

\* C13: a login that answers with a ciphertext and a salt does so on a
\* Started room for a secret that verifies against the stored proof of the
\* participant named, and the ciphertext is that participant's own and is
\* not null.
C13_LoginReturnsOwnCiphertext ==
    [][\A i \in ReqIds :
          (Responds(i) /\ reqs'[i].op = "login" /\ reqs'[i].resp.status = 200)
          => LET room == heap[reqs[i].ref]
                 k == FindParticipant(room.participants, reqs[i].args.username)
             IN  /\ room.status = "started"
                 /\ k # 0
                 /\ verifyPassword(reqs[i].args.password, room.participants[k].passwordHash)
                 /\ reqs'[i].resp.keySalt = room.participants[k].keySalt
                 /\ reqs'[i].resp.encryptedAssignment = room.participants[k].encryptedAssignment
                 /\ reqs'[i].resp.encryptedAssignment # Null]_vars

FailedLogins(r) ==
    {i \in ReqIds : /\ reqs[i].op = "login" /\ reqs[i].pc = "done" /\ reqs[i].room = r
                    /\ reqs[i].args.username # << >> /\ reqs[i].args.password # << >>
                    /\ reqs[i].resp.status # 200}

\* C15: a login with an identity that is not a participant and a login with
\* a participant's identity and a wrong secret get the same answer.
C15_FailedLoginsAlike ==
    \A r \in RoomIds :
        Exists(r) =>
            \A i, j \in FailedLogins(r) :
                (/\ FindParticipant(Participants(r), reqs[i].args.username) = 0
                 /\ FindParticipant(Participants(r), reqs[j].args.username) # 0
                 /\ ~verifyPassword(reqs[j].args.password,
                        Participants(r)[FindParticipant(Participants(r),
                            reqs[j].args.username)].passwordHash))
                => reqs[i].resp = reqs[j].resp

\* the calls of generateSecretSantaAssignments that have returned
Returned ==
    {i \in ReqIds : /\ reqs[i].op = "generateSecretSantaAssignments"
                    /\ reqs[i].pc = "done" /\ ~reqs[i].resp.thrown}

\* C16: what generateSecretSantaAssignments returns for a list of 2 or more
\* distinct identities has one pair per identity, the givers being the
\* identities in the order of the list, the receivers a permutation of the
\* identities, and no giver its own receiver; it is one of the outcomes
\* that start may get from the function.
C16_ReturnsDerangement ==
    \A i \in Returned :
        LET usernames == Usernames(reqs[i].args.participants)
            assignments == reqs[i].resp.assignments
        IN  /\ Len(assignments) = Len(usernames)
            /\ \A k \in DOMAIN usernames :
                  /\ assignments[k].username = usernames[k]
                  /\ assignments[k].giftRecipient # assignments[k].username
            /\ {assignments[k].giftRecipient : k \in DOMAIN assignments} = Range(usernames)
            /\ \A j, k \in DOMAIN assignments :
                  assignments[j].giftRecipient = assignments[k].giftRecipient => j = k
            /\ reqs[i].resp \in generateSecretSantaAssignments(reqs[i].args.participants)

\* the function has returned for a list of three after it had rejected a
\* draw
C16_Witness ==
    \E i \in Returned :
        /\ Len(reqs[i].args.participants) = 3
        /\ reqs[i].loc.attempts > 0
        /\ Len(reqs[i].resp.assignments) = 3

\* C17: generateSecretSantaAssignments ends: it never starts a draw once it
\* has rejected maxAttempts of them, it returns the draw of the turn in
\* which no giver is their own receiver, and it throws, returning nothing,
\* exactly when maxAttempts draws have been rejected.
C17_GeneratorTerminates ==
    /\ [](\A i \in ReqIds :
            reqs[i].op = "generateSecretSantaAssignments" =>
               /\ reqs[i].loc.attempts <= maxAttempts
               /\ reqs[i].pc = "done" =>
                     IF reqs[i].resp.thrown
                     THEN /\ reqs[i].loc.attempts = maxAttempts
                          /\ reqs[i].resp.assignments = << >>
                     ELSE /\ reqs[i].loc.attempts < maxAttempts
                          /\ Len(reqs[i].resp.assignments) = Len(reqs[i].args.participants)
                          /\ \A k \in DOMAIN reqs[i].resp.assignments :
                                reqs[i].resp.assignments[k].giftRecipient
                                   # reqs[i].resp.assignments[k].username)
    /\ \A i \in {1} :
          (reqs[i].op = "generateSecretSantaAssignments") ~> (reqs[i].pc = "done")

\* the function has thrown after maxAttempts rejected draws
C17_Witness ==
    \E i \in ReqIds :
        /\ reqs[i].op = "generateSecretSantaAssignments" /\ reqs[i].pc = "done"
        /\ reqs[i].resp.thrown
        /\ reqs[i].loc.attempts = maxAttempts

\* C20: removeParticipant with the host identity and the secret given at
\* creation, on an Open room, for a participant other than the host, removes
\* that participant and no other, keeps the order of the others and
\* answers with the participants that remain.
C20_HostRemovesParticipant ==
    [][\A i \in ReqIds, r \in RoomIds :
          (/\ reqs[i].pc = "idle" /\ reqs'[i].op = "removeParticipant"
           /\ reqs'[i].room = r
           /\ Exists(r) /\ Get(r).status = "open"
           /\ reqs'[i].args.hostUsername = Get(r).hostUsername
           /\ reqs'[i].args.hostPassword = HostSecret
           /\ reqs'[i].args.username # reqs'[i].args.hostUsername
           /\ FindParticipant(Participants(r), reqs'[i].args.username) # 0)
          => LET remaining == FilterOut(Participants(r), reqs'[i].args.username)
             IN  /\ Participants(r)' = remaining
                 /\ reqs'[i].pc \in {"save", "done"}
                 /\ reqs'[i].pc = "done" =>
                       /\ reqs'[i].resp.status = 200
                       /\ reqs'[i].resp.participants = Usernames(remaining)]_vars

\* register request i learns in this step that its secret is that of the
\* participant of its identity, who is in the Open room with another key
Reregisters(i) ==
    /\ reqs[i].op = "register" /\ reqs[i].pc = "verifyExisting" /\ reqs'[i].pc # "verifyExisting"
    /\ heap[reqs[i].ref].status = "open"
    /\ verifyPassword(reqs[i].args.password,
          heap[reqs[i].ref].participants[reqs[i].loc.existingParticipant].passwordHash)
    /\ IsGivenString(reqs[i].args.publicKey) /\ reqs[i].args.publicKey # Temp
    /\ reqs[i].args.publicKey
          # heap[reqs[i].ref].participants[reqs[i].loc.existingParticipant].publicKey

\* C18: a register for a participant of an Open room, not the host, with
\* the right secret and a new public key stores the new key on that
\* participant and changes nothing else of the list: no participant is
\* added, the others are as before, and the participant keeps the stored
\* salt unless the request supplies a salt, which then replaces it.  For
\* the host's own participant the call only authenticates and changes
\* nothing.
C18_ReregisterReplacesKey ==
    [][/\ \A i \in ReqIds :
          Reregisters(i) =>
             LET before == heap[reqs[i].ref].participants
                 after == heap'[reqs[i].ref].participants
                 k == reqs[i].loc.existingParticipant
             IN  /\ Len(after) = Len(before)
                 /\ \A j \in DOMAIN before : j # k => after[j] = before[j]
                 /\ after[k].username = before[k].username
                 /\ after[k].passwordHash = before[k].passwordHash
                 /\ after[k].publicKey = reqs[i].args.publicKey
                 /\ after[k].keySalt = IF reqs[i].args.keySalt # ""
                                       THEN reqs[i].args.keySalt
                                       ELSE before[k].keySalt
       /\ \A i \in ReqIds :
             (/\ reqs[i].op = "register" /\ reqs[i].pc = "verifyHost"
              /\ reqs'[i].pc # "verifyHost"
              /\ verifyPassword(reqs[i].loc.sanitizedUsername \o reqs[i].args.password,
                                heap[reqs[i].ref].hostLoginHash)
              /\ FindParticipant(heap[reqs[i].ref].participants,
                                 reqs[i].loc.sanitizedUsername) # 0)
             => /\ heap' = heap
                /\ reqs'[i].pc = "done"
                /\ reqs'[i].resp.message = "Host authenticated successfully"]_vars

\* Bo has registered again with the right secret, a new key and no salt:
\* the room holds the new key and the salt Bo had
C18_Witness ==
    \E i \in ReqIds :
        /\ reqs[i].op = "register" /\ Succeeded(i)
        /\ reqs[i].args.username = Bo /\ reqs[i].args.password = Pass
        /\ reqs[i].args.keySalt = ""
        /\ reqs[i].resp.alreadyRegistered
        /\ Len(Participants(R1)) = 2
        /\ Participants(R1)[1].publicKey = ClientKey(Bo, Pass, R1, "s2")
        /\ Participants(R1)[1].keySalt = "s1"

\* C18 as stated: such a register replaces the key, adds no participant
\* and leaves the stored salt as it was.
C18_SaltUnchanged ==
    [][\A i \in ReqIds :
          Reregisters(i) =>
             LET before == heap[reqs[i].ref].participants
                 after == heap'[reqs[i].ref].participants
                 k == reqs[i].loc.existingParticipant
             IN  /\ Len(after) = Len(before)
                 /\ after[k].publicKey = reqs[i].args.publicKey
                 /\ after[k].keySalt = before[k].keySalt]_vars

\* the host pair that request i carries is not the host identity of its
\* room with the secret given at creation
WrongHostPair(hostUsername, hostPassword, room) ==
    ~(hostUsername = room.hostUsername /\ hostPassword = HostSecret)

\* request i gets in this step the result of the verification of wrong
\* credentials: a secret that is not the participant's, or a wrong host pair
CredentialsFail(i) ==
    \/ /\ reqs[i].op = "register" /\ reqs[i].pc = "verifyExisting"
       /\ reqs'[i].pc # "verifyExisting"
       /\ ~verifyPassword(reqs[i].args.password,
             heap[reqs[i].ref].participants[reqs[i].loc.existingParticipant].passwordHash)
    \/ /\ reqs[i].op = "initRegister" /\ reqs[i].pc = "verify" /\ reqs'[i].pc # "verify"
       /\ ~verifyPassword(reqs[i].args.password,
             heap[reqs[i].ref].participants[reqs[i].loc.existingParticipant].passwordHash)
    \/ /\ reqs[i].op = "login" /\ reqs[i].pc = "verify" /\ reqs'[i].pc # "verify"
       /\ ~verifyPassword(reqs[i].args.password,
             heap[reqs[i].ref].participants[reqs[i].loc.participant].passwordHash)
    \/ /\ reqs[i].op = "start" /\ reqs[i].pc = "verify" /\ reqs'[i].pc # "verify"
       /\ WrongHostPair(reqs[i].args.hostUsername, reqs[i].args.hostPassword,
                        heap[reqs[i].ref])
    \/ /\ reqs[i].op = "hostAuth" /\ reqs[i].pc = "verify" /\ reqs'[i].pc # "verify"
       /\ WrongHostPair(reqs[i].args.username, reqs[i].args.password, heap[reqs[i].ref])
    \/ /\ reqs[i].pc = "idle" /\ reqs'[i].op = "removeParticipant"
       /\ reqs'[i].ref # 0
       /\ reqs'[i].args.hostUsername # << >> /\ reqs'[i].args.hostPassword # << >>
       /\ reqs'[i].args.username # << >>
       /\ WrongHostPair(reqs'[i].args.hostUsername, reqs'[i].args.hostPassword,
                        heap[reqs'[i].ref])

\* C19: a request that carries wrong credentials is answered, in the step
\* that gets the result of their verification, with the authorization
\* error, and no room changes in that step.
C19_FailedCredentialsChangeNothing ==
    [][\A i \in ReqIds :
          CredentialsFail(i) =>
             /\ reqs'[i].pc = "done"
             /\ reqs'[i].resp.status = 401
             /\ heap' = heap /\ rooms' = rooms]_vars

\* C21: a removeParticipant whose target is the host identity of its room is
\* answered with an error in the step in which it arrives, and the room
\* holds as many records of the host after the step as before it.
C21_HostNotRemoved ==
    [][\A i \in ReqIds, r \in RoomIds :
          ( /\ reqs[i].pc = "idle"
            /\ reqs'[i].op = "removeParticipant"
            /\ reqs'[i].room = r
            /\ Exists(r)
            /\ reqs'[i].args.username = Get(r).hostUsername )
          => /\ reqs'[i].pc = "done"
             /\ reqs'[i].resp.status \in {400, 401, 404}
             /\ Exists(r)'
             /\ Count(Participants(r)', Get(r).hostUsername)
                   = Count(Participants(r), Get(r).hostUsername)]_vars

\* the host, registered as a participant, has asked with the credentials of
\* the creation to be removed, was refused and is still in the room
C21_Witness ==
    \E i \in ReqIds :
        /\ reqs[i].op = "removeParticipant" /\ reqs[i].pc = "done"
        /\ reqs[i].args = [hostUsername |-> Al, hostPassword |-> Pass, username |-> Al]
        /\ reqs[i].resp.status = 401
        /\ Get(R1).status = "open"
        /\ Count(Participants(R1), Al) = 1

\* the requests that only read
ReadOnlyOps == {"initRegister", "login", "hostAuth", "roomInfo"}

\* request i, one of the requests that only read, takes a step
ReadOnlyStep(i) == reqs'[i] # reqs[i] /\ reqs'[i].op \in ReadOnlyOps

\* C22: no step of initRegister, login, hostAuthenticate or room info changes
\* the registry; initRegister of an identity that is not in the open room
\* answers with a salt and adds no participant; hostAuthenticate with
\* credentials that verify answers 200 whether the room is Open or Started,
\* with hasAssignment telling, for each participant, that the ciphertext is
\* not null.
C22_ReadOnlyRequests ==
    [][\A i \in ReqIds :
          ReadOnlyStep(i) =>
             /\ heap' = heap /\ rooms' = rooms
             /\ ( /\ reqs'[i].op = "initRegister"
                  /\ reqs[i].pc = "idle"
                  /\ reqs'[i].ref # 0
                  /\ heap[reqs'[i].ref].status = "open"
                  /\ validateUsername(reqs'[i].args.username) # Invalid
                  /\ validatePassword(reqs'[i].args.password)
                  /\ FindParticipant(heap[reqs'[i].ref].participants,
                                     validateUsername(reqs'[i].args.username)) = 0 )
                => /\ reqs'[i].pc = "done"
                   /\ reqs'[i].resp.status = 200
                   /\ reqs'[i].resp.keySalt \in KeySalts
                   /\ FindParticipant(heap'[reqs'[i].ref].participants,
                                      validateUsername(reqs'[i].args.username)) = 0
             /\ ( /\ reqs[i].op = "hostAuth" /\ reqs[i].pc = "verify"
                  /\ verifyPassword(reqs[i].args.username \o reqs[i].args.password,
                                    heap[reqs[i].ref].hostLoginHash) )
                => /\ reqs'[i].pc = "done"
                   /\ reqs'[i].resp.status = 200
                   /\ reqs'[i].resp.roomStatus = heap[reqs[i].ref].status
                   /\ DOMAIN reqs'[i].resp.participants
                         = DOMAIN heap[reqs[i].ref].participants
                   /\ \A k \in DOMAIN heap[reqs[i].ref].participants :
                         /\ reqs'[i].resp.participants[k].username
                               = heap[reqs[i].ref].participants[k].username
                         /\ reqs'[i].resp.participants[k].hasAssignment
                               = (heap[reqs[i].ref].participants[k].encryptedAssignment # Null)]_vars

\* initRegister gave a salt to an identity that is still not a participant,
\* and the host has authenticated at the room once it was Started, where
\* every participant has an assignment
C22_Witness ==
    \E i, j \in ReqIds :
        /\ reqs[i].op = "initRegister" /\ reqs[i].pc = "done"
        /\ reqs[i].args.username = Di
        /\ reqs[i].resp.status = 200 /\ ~reqs[i].resp.alreadyExists
        /\ FindParticipant(Participants(R1), Di) = 0
        /\ reqs[j].op = "hostAuth" /\ reqs[j].pc = "done"
        /\ reqs[j].resp.status = 200 /\ reqs[j].resp.roomStatus = "started"
        /\ Len(reqs[j].resp.participants) = 2
        /\ \A k \in DOMAIN reqs[j].resp.participants :
              reqs[j].resp.participants[k].hasAssignment

\* the fields of a participant that a response may not carry
SecretFields == {"passwordHash", "publicKey", "keySalt", "hostLoginHash"}

\* the response resp of a request of kind op carries, outside its own keySalt
\* field, no salt, credential proof or public key: its lists of participants
\* hold names, and for hostAuth names and hasAssignment
NoSecretsIn(op, resp) ==
    /\ DOMAIN resp \cap (SecretFields \ {"keySalt"}) = {}
    /\ "roomDetails" \in DOMAIN resp =>
          /\ DOMAIN resp.roomDetails \cap SecretFields = {}
          /\ \A k \in DOMAIN resp.roomDetails.participants :
                resp.roomDetails.participants[k] \in Seq(STRING)
    /\ "room" \in DOMAIN resp => DOMAIN resp.room \cap SecretFields = {}
    /\ "participants" \in DOMAIN resp =>
          \A k \in DOMAIN resp.participants :
             IF op = "hostAuth"
             THEN DOMAIN resp.participants[k] = {"username", "hasAssignment"}
             ELSE resp.participants[k] \in Seq(STRING)

\* C23: a response carries no credential proof and no public key, and no
\* salt outside its keySalt field; a response has a keySalt field only when
\* it is the 200 of an initRegister, a register or a login, and then the salt
\* is either the one initRegister generated for an identity that is not in the
\* room, or the salt stored, when the response is made, on a participant of
\* the name the request gave whose credential proof the secret of the request
\* verifies.
C23_SaltOnlyForTheSecret ==
    [][\A i \in ReqIds :
          Responds(i) =>
             LET q == reqs'[i]
                 resp == q.resp
             IN  /\ NoSecretsIn(q.op, resp)
                 /\ "keySalt" \in DOMAIN resp =>
                       /\ q.op \in {"initRegister", "register", "login"}
                       /\ resp.status = 200
                       /\ \/ q.op = "initRegister" /\ ~resp.alreadyExists
                          \/ \E k \in DOMAIN heap'[q.ref].participants :
                                LET p == heap'[q.ref].participants[k]
                                IN  /\ p.username = sanitizeString(q.args.username,
                                                                   UsernameMaxLength)
                                    /\ p.keySalt = resp.keySalt
                                    /\ verifyPassword(q.args.password, p.passwordHash)]_vars

\* Bo's salt went to an initRegister and to a register that gave Bo's secret,
\* and an initRegister in Bo's name with another secret was refused
C23_Witness ==
    \E a, b, c \in ReqIds :
        /\ reqs[a].op = "initRegister" /\ reqs[a].pc = "done"
        /\ reqs[a].args = [username |-> Bo, password |-> Pass]
        /\ reqs[a].resp.status = 200 /\ reqs[a].resp.keySalt = "s1"
        /\ reqs[b].op = "register" /\ reqs[b].pc = "done"
        /\ reqs[b].args.username = Bo /\ reqs[b].args.password = Pass
        /\ reqs[b].resp.status = 200
        /\ reqs[b].resp.keySalt = Participants(R1)[1].keySalt
        /\ reqs[c].op = "initRegister" /\ reqs[c].pc = "done"
        /\ reqs[c].args = [username |-> Bo, password |-> Word]
        /\ reqs[c].resp = Error(401, "Invalid password for this username")

\* C24: the salt in the 200 of a register is, when the response is made, the
\* salt stored on the participant that the name of the request finds in the
\* room (the one login looks up).
C24_ReturnedSaltIsStored ==
    [][\A i \in ReqIds :
          ( /\ Responds(i)
            /\ reqs'[i].op = "register"
            /\ reqs'[i].resp.status = 200
            /\ "keySalt" \in DOMAIN reqs'[i].resp )
          => LET participants == heap'[reqs'[i].ref].participants
                 found == FindParticipant(participants, Identity(i)')
             IN  /\ found # 0
                 /\ participants[found].keySalt = reqs'[i].resp.keySalt]_vars

\* C25: whenever no request is in flight and no saveData is running, the
\* durable file holds the registry as it is in memory.
C25_QuiescentFileIsRegistry ==
    (InFlight = {} /\ saver.pc = "idle" /\ loader = "done")
        => file = Json(Snapshot)

\* the handlers that are inside an execution of saveData, between its
\* setting of saveInProgress and its return
Saving == {i \in ReqIds : reqs[i].pc = "save"}

\* C26: at most one execution of saveData is between its start and its
\* completion: at most one handler is inside saveData, it is the one whose
\* flush is running, and saveInProgress is set exactly while it runs.
C26_OneFlushAtATime ==
    /\ Cardinality(Saving) <= 1
    /\ saveInProgress <=> saver.pc # "idle"
    /\ IF saver.pc = "idle" THEN Saving = {} ELSE Saving = {saver.owner}

\* a flush is writing the file while a registration that came during the
\* flush has pushed its participant, skipped its own flush and answered
C26_Witness ==
    /\ saver.pc = "write"
    /\ InFlight = {saver.owner}
    /\ saver.snapshot[R1].participants # Participants(R1)
    /\ \E j \in ReqIds :
          /\ j # saver.owner
          /\ reqs[j].op = "register" /\ Succeeded(j) /\ ~reqs[j].resp.alreadyRegistered

\* C27: at every instant, a crash during a flush included, whatever a read
\* of the durable file returns is a complete snapshot, never a partly
\* written one.
C27_FileNeverPartial == \A content \in Visible : content # Partial

\* C28: whenever the content of an existing durable file is replaced, a
\* backup holding exactly that content is among the backups.
C28_BackupBeforeOverwrite ==
    [][(file' # file /\ file # Missing) => file \in backups]_vars

\* C29: every room that the durable file held when the process started is in
\* the registry once loadData has completed, and is in the durable file
\* after every flush of the process.
C29_HydrationKeepsRooms ==
    /\ [](loader = "done" => \A r \in DurableAtStart : Exists(r))
    /\ [][file' # file =>
             \A r \in DurableAtStart : ParsedRooms(file')[r] # NoRoom]_vars

\* request i asks to create a room with a name, a host name and a secret
\* that pass validation
ValidCreate(i) ==
    /\ reqs[i].op = "createRoom"
    /\ reqs[i].args.name # << >> /\ validateRoomName(reqs[i].args.name) # Invalid
    /\ reqs[i].args.hostUsername # << >>
    /\ validateUsername(reqs[i].args.hostUsername) # Invalid
    /\ validatePassword(reqs[i].args.hostPassword)

\* C30: on a data file that is missing or does not parse, loadData ends with
\* the registry empty; a valid createRoom that comes afterwards is answered
\* 200 with the room in the registry, and when the flush it started
\* completes the durable file holds that room as the registry does.
C30_ColdStart ==
    /\ []((loader = "done" /\ CreatedRooms = {}) => rooms = [r \in RoomIds |-> 0])
    /\ [][loader = "read" => loader' \in {"read", "done"}]_vars
    /\ [][\A i \in ReqIds, r \in RoomIds :
             (Responds(i) /\ ValidCreate(i)' /\ reqs'[i].room = r) =>
                /\ reqs'[i].resp.status = 200
                /\ reqs'[i].resp.roomId = r
                /\ Exists(r)'
                /\ Get(r)'.status = "open"
                /\ (saver.pc # "idle" /\ saver'.pc = "idle")
                      => /\ file'.kind = "json"
                         /\ file'.rooms[r] = Get(r)']_vars

\* the process started on a file that does not parse, the registry was
\* empty after loadData, and the room then created is in the registry and
\* in the file, the unparsable content kept as a backup
C30_Witness ==
    /\ loader = "done"
    /\ Partial \in backups
    /\ \E i \in ReqIds :
          /\ reqs[i].op = "createRoom" /\ Succeeded(i)
          /\ Exists(reqs[i].room)
          /\ file = Json(Snapshot)
    /\ InFlight = {}

\* C31: the end of a flush, failed or not, changes no room in memory and
\* answers the createRoom, register or start that awaited it with success;
\* the snapshot that a flush writes is the whole registry as it is when
\* saveData serialises it, so that a flush that succeeds after one that
\* failed puts in the file the mutations that the failed one did not.
C31_WriteFailureKeepsMemory ==
    /\ [][(saver.pc = "write" /\ saver'.pc = "idle") =>
             /\ heap' = heap /\ rooms' = rooms
             /\ reqs'[saver.owner].pc = "done"
             /\ reqs'[saver.owner].resp.status = 200
             /\ file' \in {file, Partial, Json(saver.snapshot)}]_vars
    /\ [][(saver.pc # "write" /\ saver'.pc = "write") =>
             saver'.snapshot = Snapshot]_vars
    /\ [](saver.pc = "write" =>
             \A r \in RoomIds :
                 (Exists(r) /\ saver.snapshot[r] # NoRoom) =>
                    Len(Participants(r)) >= Len(saver.snapshot[r].participants))

\* the write of the flush of a registration failed and left the file
\* truncated; the registration answered success and its participant stayed
\* in memory; the flush of the start that followed backed the truncated file
\* up and wrote the registry, registration included
C31_Witness ==
    /\ Partial \in backups
    /\ InFlight = {}
    /\ file = Json(Snapshot)
    /\ Get(R1).status = "started"
    /\ Len(Participants(R1)) = 3
    /\ \E i, j \in ReqIds :
          /\ reqs[i].op = "register" /\ Succeeded(i) /\ ~reqs[i].resp.alreadyRegistered
          /\ reqs[j].op = "start" /\ Succeeded(j)

\* the messages of the rejections for invalid input
ValidationMessages ==
    {"Username must be at least 2 characters",
     "Password must be at least 4 characters",
     "Room name cannot be empty",
     "Public key is required for registration"}

\* request i is rejected in this step for invalid input
RejectedInvalid(i) ==
    /\ Responds(i)
    /\ reqs'[i].resp.status = 400
    /\ reqs'[i].resp.error \in ValidationMessages

\* the input of request i is invalid: a name shorter than 2 once sanitized,
\* a secret shorter than 4, a room name empty once sanitized
InvalidInput(q) ==
    \/ /\ q.op \in {"register", "initRegister"}
       /\ \/ validateUsername(q.args.username) = Invalid
          \/ ~validatePassword(q.args.password)
    \/ /\ q.op = "createRoom"
       /\ \/ validateRoomName(q.args.name) = Invalid
          \/ validateUsername(q.args.hostUsername) = Invalid
          \/ ~validatePassword(q.args.hostPassword)

\* C32: the step that rejects a request for invalid input changes no room
\* and adds no room and no participant; a request to create a room or to
\* register at an open room whose name, secret or room name is invalid is
\* rejected in the step in which it arrives.
C32_InvalidInputChangesNothing ==
    [][\A i \in ReqIds :
          /\ RejectedInvalid(i) => (heap' = heap /\ rooms' = rooms)
          /\ ( /\ reqs[i].pc = "idle" /\ reqs'[i].pc # "idle"
               /\ InvalidInput(reqs'[i])
               /\ \/ reqs'[i].op = "createRoom"
                  \/ reqs'[i].ref # 0 /\ heap[reqs'[i].ref].status = "open" )
             => (RejectedInvalid(i) /\ heap' = heap /\ rooms' = rooms)]_vars

\* a registration under a name too short, a creation with a secret too
\* short and a new registration without a key were rejected, and the
\* registry is as it was
C32_Witness ==
    /\ \E a, b, c \in ReqIds :
          /\ reqs[a].op = "register" /\ reqs[a].pc = "done"
          /\ reqs[a].resp = Error(400, "Username must be at least 2 characters")
          /\ reqs[b].op = "createRoom" /\ reqs[b].pc = "done"
          /\ reqs[b].resp = Error(400, "Password must be at least 4 characters")
          /\ reqs[c].op = "register" /\ reqs[c].pc = "done"
          /\ reqs[c].resp = Error(400, "Public key is required for registration")
    /\ heap = <<RoomOf(BoAndCy)>>
    /\ rooms = [r \in RoomIds |-> IF r = R1 THEN 1 ELSE 0]

\* the fields of a room and of a participant as the handlers build them
RoomFields ==
    {"id", "name", "hostUsername", "hostLoginHash", "participants", "status", "createdAt"}

ParticipantFields ==
    {"username", "passwordHash", "publicKey", "keySalt", "encryptedAssignment"}

\* a room record holds the draw only as ciphertexts, one per participant
OnlyCiphertexts(room) ==
    \/ room = NoRoom
    \/ /\ DOMAIN room = RoomFields
       /\ \A k \in DOMAIN room.participants :
             /\ DOMAIN room.participants[k] = ParticipantFields
             /\ room.participants[k].encryptedAssignment.kind \in {"null", "ciphertext"}

\* the contents of the durable file, of what is being written and of the
\* backups
Durable ==
    {file} \cup backups \cup (IF saver.pc = "write" THEN {Json(saver.snapshot)} ELSE {})

\* C33: in every reachable state no room in memory, no durable file or
\* backup and no response of a handler holds a receiver in plaintext: rooms
\* have their seven fields and participants their five, what a participant
\* holds of the draw is null or a ciphertext, and a response carries of the
\* draw at most the ciphertext that login returns.
C33_NoPlaintextDraw ==
    /\ \A k \in DOMAIN heap : OnlyCiphertexts(heap[k])
    /\ \A content \in Durable : \A r \in RoomIds : OnlyCiphertexts(ParsedRooms(content)[r])
    /\ \A i \in ReqIds :
          (reqs[i].pc = "done" /\ reqs[i].op # "generateSecretSantaAssignments") =>
             /\ DOMAIN reqs[i].resp \cap {"assignments", "giftRecipient"} = {}
             /\ "encryptedAssignment" \in DOMAIN reqs[i].resp =>
                   reqs[i].resp.encryptedAssignment.kind \in {"null", "ciphertext"}

\* the host has started the room, the flush has written it over a backup,
\* and a participant has logged in and got a ciphertext
C33_Witness ==
    /\ \E i, j \in ReqIds :
          /\ reqs[i].op = "start" /\ Succeeded(i)
          /\ reqs[j].op = "login" /\ Succeeded(j)
          /\ reqs[j].resp.encryptedAssignment.kind = "ciphertext"
    /\ file = Json(Snapshot)
    /\ backups # {}
    /\ Get(R1).status = "started"
    /\ NoneNull(Participants(R1))

\* the calls of deriveKeyPairFromPassword that have returned
Derived ==
    {i \in ReqIds : reqs[i].op = "deriveKeyPairFromPassword" /\ reqs[i].pc = "done"}

AnswerAtR1(op) ==
    CASE op = "roomInfo" ->
            [status |-> 200, id |-> R1, name |-> RoomName,
             participantCount |-> 2, roomStatus |-> "open"]
      [] op = "initRegister" ->
            [status |-> 200, keySalt |-> "s1", alreadyExists |-> TRUE]
      [] op = "login" ->
            [status |-> 400, error |-> "Room has not started yet",
             roomStatus |-> "open"]
      [] op = "removeParticipant" -> Error(401, "Invalid host credentials")

\* C35: a step changes the in-memory record of a room only when it is a step
\* of a request addressed to that room, so R1's record stays what it was
\* while registrations and starts act on R2; and every request addressed to
\* R1 is answered as R1's record alone determines, whatever R2 holds or
\* becomes.
C35_RoomsAreIndependent ==
    /\ [](Get(R1) = RoomOf(BoAndCy))
    /\ [](\A i \in ReqIds :
            (reqs[i].pc = "done" /\ reqs[i].room = R1)
                => reqs[i].resp = AnswerAtR1(reqs[i].op))
    /\ [][\A b \in RoomIds :
            Get(b)' # Get(b)
                => \E i \in ReqIds : reqs'[i] # reqs[i] /\ reqs'[i].room = b]_vars

\* R2 has started and its participants hold ciphertexts, and after that a
\* read of R1 reported the open room of two
C35_Witness ==
    /\ Get(R2).status = "started"
    /\ NoneNull(Participants(R2))
    /\ \E i, j \in ReqIds :
          /\ i < j
          /\ reqs[i].op = "start" /\ reqs[i].room = R2 /\ Succeeded(i)
          /\ reqs[j].op = "roomInfo" /\ reqs[j].room = R1 /\ reqs[j].pc = "done"
          /\ reqs[j].resp.participantCount = 2
    /\ Get(R1) = RoomOf(BoAndCy)

\* the calls of isRateLimited by a client that returned false
Admitted(clientId) == {j \in CallsOf(clientId) : ~reqs[j].resp.limited}

\* the admitted calls of a client whose clock is less than RATE_LIMIT_WINDOW
\* before the clock t, t included
AdmittedInWindow(clientId, t) ==
    {j \in Admitted(clientId) :
        reqs[j].args.now <= t /\ t - reqs[j].args.now < RATE_LIMIT_WINDOW}

\* C36: a call of isRateLimited is refused exactly when
\* MAX_REQUESTS_PER_WINDOW earlier calls of the same client were admitted
\* less than RATE_LIMIT_WINDOW ms before it; refused calls and the calls of
\* other clients do not count; so no client has more than
\* MAX_REQUESTS_PER_WINDOW admitted calls in a window of RATE_LIMIT_WINDOW ms.
C36_SlidingWindow ==
    /\ \A c \in LimiterClients : \A i \in CallsOf(c) :
          LET before == {j \in AdmittedInWindow(c, reqs[i].args.now) : j < i}
          IN  reqs[i].resp.limited <=> Cardinality(before) = MAX_REQUESTS_PER_WINDOW
    /\ \A c \in LimiterClients : \A t \in {0} \cup Instants :
          Cardinality(AdmittedInWindow(c, t)) <= MAX_REQUESTS_PER_WINDOW

\* ip1 had ten calls admitted at 0 and one refused just inside the window,
\* while ip2 was admitted; at RATE_LIMIT_WINDOW ip1 was admitted again
C36_Witness ==
    /\ now = RATE_LIMIT_WINDOW
    /\ Cardinality(AdmittedInWindow("ip1", 0)) = MAX_REQUESTS_PER_WINDOW
    /\ \E i, j, k \in LimiterCalls :
          /\ i < j /\ i < k
          /\ i \in CallsOf("ip1") /\ reqs[i].resp.limited
          /\ reqs[i].args.now = RATE_LIMIT_WINDOW - 1
          /\ j \in Admitted("ip2") /\ reqs[j].args.now = RATE_LIMIT_WINDOW - 1
          /\ k \in Admitted("ip1") /\ reqs[k].args.now = RATE_LIMIT_WINDOW

====
